---- MODULE Spec2Model ----
(***************************************************************************)
(* akareko: the signed content model, the gossip exchange client           *)
(* (AuroraClient::routine_exchange), the v1 command handlers it talks to   *)
(* and the server's per-connection dispatch loop.                          *)
(*                                                                         *)
(* Bytes are integers 0..255 and strings are sequences of code points.     *)
(* Ed25519 and SHA-512 are idealised: a signature names the private key    *)
(* and the exact message it was made over, a digest names its preimage.    *)
(***************************************************************************)
EXTENDS Integers, Sequences, FiniteSets, TLC

\* ------------------------------------------------------------------ bounds

\* Longest ExchangeContent payload a hostile peer sends.
MaxSample == 2
\* Longest GetIndexes payload a hostile peer sends.
MaxResp == 2
\* Runs of routine_exchange against the same (unchanged) peer.
MaxRuns == 2
\* Repository calls that fail with a DatabaseError during one run.
MaxFaults == 1

\* Bytes a peer writes on one connection
MaxBytes == 5
\* Connections the server accepts
MaxConns == 2
\* Commands one of several connections gets answered
MaxHandled == 1
\* Requests a client sends on one connection
MaxReq == 2
\* Longest list of (tag, hash) pairs in a GetIndexes request
MaxPairs == 2
\* Items a peer that is not this server writes in answer to a request
MaxWire == 3

\* The byte values a peer writes: the version, the discriminants of the
\* handler table, and one that is none of them
WireBytes == {0, 1, 2, 3}

\* ExchangeContentRequest { count: 10 }
ExchangeCount == 10

\* u16::MAX, the most elements a String or a Vec has on the wire
U16_MAX == 65535
\* Bytes of a [u8; N] (a Hash, a PublicKey, a Signature)
ArrayLen == 2
\* Most bytes a sink that does not take all of a write takes in one call
MaxAccept == 1

\* ------------------------------------------------------------- byte helpers

RECURSIVE Flatten(_)
Flatten(ss) == IF ss = <<>> THEN <<>> ELSE Head(ss) \o Flatten(Tail(ss))

\* uN::to_le_bytes / to_be_bytes on w bytes. Division and remainder round
\* down, so a negative value comes out in two's complement.
RECURSIVE LeBytes(_, _)
LeBytes(n, w) ==
    IF w = 0 THEN <<>> ELSE <<n % 256>> \o LeBytes(n \div 256, w - 1)

Reverse(s) == [k \in 1..Len(s) |-> s[Len(s) + 1 - k]]
BeBytes(n, w) == Reverse(LeBytes(n, w))

\* i32::to_le_bytes
I32LeBytes(n) == LeBytes(n, 4)

\* char::to_lowercase on the code points used here (A-Z, and U+00C9 -> U+00E9)
ToLowercase(c) ==
    IF c >= 65 /\ c <= 90 THEN c + 32
    ELSE IF c = 201 THEN 233
    ELSE c

\* canonical decomposition (nfd) of one code point: U+00E9 -> e, U+0301
Nfd(c) == IF c = 233 THEN <<101, 769>> ELSE <<c>>

IsAsciiAlphanumeric(c) ==
    \/ c >= 48 /\ c <= 57
    \/ c >= 65 /\ c <= 90
    \/ c >= 97 /\ c <= 122

\* SanitizedString::new: lowercase, decompose, keep only ASCII alphanumerics
SanitizedString(s) ==
    SelectSeq(Flatten([i \in 1..Len(s) |-> Nfd(ToLowercase(s[i]))]),
              IsAsciiAlphanumeric)

\* ------------------------------------------------------------------ crypto

\* Key pairs are named by a number; PrivateKey::public_key
PublicKeyOf(priv) == priv

\* Signature::empty(): 64 zero bytes, a signature of nothing by nobody
SignatureEmpty == [signer |-> "none", msg |-> <<>>]

\* PrivateKey::sign
Sign(priv, msg) == [signer |-> priv, msg |-> msg]

\* PublicKey::verify (verify_strict): only the key's own signature over
\* exactly these bytes passes
Verify(pub, msg, sig) == sig.signer = pub /\ sig.msg = msg

\* Hash::digest (SHA-512), collision free
Digest(bytes) == [sha512 |-> bytes]

\* ----------------------------------------------------------- signed records

\* MangaTag::TAG = "mangas"
MangaTAG == <<109, 97, 110, 103, 97, 115>>

\* id_bytes over the title as it was typed
IndexIdBytesRawTitle(title, release_date) ==
    MangaTAG \o title \o I32LeBytes(release_date)

\* Index::id_bytes: tag || sanitize(title) || release_date little endian
IndexIdBytes(title, release_date) ==
    MangaTAG \o SanitizedString(title) \o I32LeBytes(release_date)

\* Index::new
IndexNew(title, release_date, source, signature) ==
    [hash |-> Digest(IndexIdBytes(title, release_date)),
     title |-> title, release_date |-> release_date,
     source |-> source, signature |-> signature]

\* Index::new_signed (Index::new with the empty signature, then Index::sign)
IndexNewSigned(title, release_date, priv) ==
    [IndexNew(title, release_date, PublicKeyOf(priv), SignatureEmpty)
        EXCEPT !.signature = Sign(priv, IndexIdBytes(title, release_date))]

\* Index::sign
IndexSign(ix, priv) ==
    [ix EXCEPT !.signature = Sign(priv, IndexIdBytes(ix.title, ix.release_date))]

\* Index::verify (TaggedIndex::verify delegates to it): the signature over
\* id_bytes(title, release_date) under the embedded source key; the hash field
\* is not looked at
IndexVerify(ix) ==
    Verify(ix.source, IndexIdBytes(ix.title, ix.release_date), ix.signature)

\* Index::decode: the five fields are read off the wire as sent, the hash
\* included (it is not recomputed from the title and the date)
IndexDecode(wire) ==
    [hash |-> wire.hash, title |-> wire.title,
     release_date |-> wire.release_date,
     source |-> wire.source, signature |-> wire.signature]

\* ContentEntry::to_bytes: title || enumeration (f32 bits) be || path ||
\* MangaChapter::to_bytes (language as u16 be)
EntryToBytes(e) ==
    e.title \o BeBytes(e.enumeration, 4) \o e.path \o BeBytes(e.language, 2)

\* A Content::id_bytes that leaves the timestamp out
ContentIdBytesNoTimestamp(index_hash, timestamp, magnet_link, entries) ==
    <<index_hash>> \o magnet_link
        \o Flatten([i \in 1..Len(entries) |-> EntryToBytes(entries[i])])

\* Content::id_bytes: index_hash || timestamp be || magnet || entries.
\* The 64 hash bytes are kept as one block.
ContentIdBytes(index_hash, timestamp, magnet_link, entries) ==
    <<index_hash>> \o BeBytes(timestamp, 8) \o magnet_link
        \o Flatten([i \in 1..Len(entries) |-> EntryToBytes(entries[i])])

\* Content::new_signed
ContentNewSigned(source, index_hash, timestamp, magnet_link, entries, priv) ==
    [signature |-> Sign(priv, ContentIdBytes(index_hash, timestamp,
                                             magnet_link, entries)),
     source |-> source, index_hash |-> index_hash, timestamp |-> timestamp,
     magnet_link |-> magnet_link, entries |-> entries]

\* Content::verify (TaggedContent::verify delegates to it)
ContentVerify(c) ==
    Verify(c.source,
           ContentIdBytes(c.index_hash, c.timestamp, c.magnet_link, c.entries),
           c.signature)

\* User::verification_bytes: name || timestamp le || address
UserVerificationBytes(u) == u.name \o LeBytes(u.timestamp, 8) \o u.address

\* A User::new that starts a user at the highest level
UserNewFullTrust(name, timestamp, pub_key, signature, address) ==
    [pub_key |-> pub_key, name |-> name, timestamp |-> timestamp,
     address |-> address, signature |-> signature, trust |-> "FullTrust"]

\* User::new: trust starts at Unverified
UserNew(name, timestamp, pub_key, signature, address) ==
    [pub_key |-> pub_key, name |-> name, timestamp |-> timestamp,
     address |-> address, signature |-> signature, trust |-> "Unverified"]

\* User::new_signed
UserNewSigned(name, timestamp, priv, address) ==
    LET u == UserNew(name, timestamp, PublicKeyOf(priv), SignatureEmpty, address)
    IN  [u EXCEPT !.signature = Sign(priv, UserVerificationBytes(u))]

\* User::verify
UserVerify(u) == Verify(u.pub_key, UserVerificationBytes(u), u.signature)

\* User::set_trust
SetTrust(u, t) == [u EXCEPT !.trust = t]

\* impl From<User> for UserResponse: trust is dropped
UserResponseFrom(u) ==
    [pub_key |-> u.pub_key, name |-> u.name, signature |-> u.signature,
     timestamp |-> u.timestamp, address |-> u.address]

\* UserResponse::as_user
AsUser(r) == UserNew(r.name, r.timestamp, r.pub_key, r.signature, r.address)

\* verification_bytes without the requester address
WhoVerificationBytesNoAddress(timestamp, request_address) ==
    LeBytes(timestamp, 8)

\* WhoResponse::verification_bytes: timestamp le || requester address
WhoVerificationBytes(timestamp, request_address) ==
    LeBytes(timestamp, 8) \o request_address

\* WhoResponse::new_signed
WhoResponseNewSigned(user, request_address, priv, now) ==
    [user |-> UserResponseFrom(user), timestamp |-> now,
     signature |-> Sign(priv, WhoVerificationBytes(now, request_address))]

\* WhoResponse::verify
WhoResponseVerify(w, request_address) ==
    Verify(w.user.pub_key,
           WhoVerificationBytes(w.timestamp, request_address), w.signature)

\* Post::sign_bytes: topic || content || timestamp le. The 64 topic bytes are
\* kept as one block.
PostSignBytes(p) == <<p.topic>> \o p.content \o LeBytes(p.timestamp, 8)

\* Post::new_signed
PostNewSigned(content, timestamp, topic, priv) ==
    LET p == [signature |-> SignatureEmpty, source |-> PublicKeyOf(priv),
              topic |-> topic, timestamp |-> timestamp, content |-> content]
    IN  [p EXCEPT !.signature = Sign(priv, PostSignBytes(p))]

\* Post::verify
PostVerify(p) == Verify(p.source, PostSignBytes(p), p.signature)

\* ------------------------------------------------------------ repositories

\* Option<T>
None == [some |-> FALSE]
Some(x) == [some |-> TRUE, value |-> x]

\* An upsert_user that only creates: a record already stored under the key stays
UpsertUserInsertOnly(repo, u) ==
    IF \E x \in repo : x.pub_key = u.pub_key THEN repo ELSE repo \cup {u}

\* UserRepository::upsert_user: the record keyed by the public key is replaced
UpsertUser(repo, u) == {x \in repo : x.pub_key # u.pub_key} \cup {u}

\* UserRepository::get_user
GetUser(repo, pub_key) ==
    IF \E x \in repo : x.pub_key = pub_key
    THEN Some(CHOOSE x \in repo : x.pub_key = pub_key)
    ELSE None

\* IndexRepository::add_index: upsert under (tag, index.hash)
AddIndex(repo, ix) == {x \in repo : x.hash # ix.hash} \cup {ix}

\* IndexRepository::get_index: select (tag, hash)
GetIndex(repo, hash) ==
    IF \E x \in repo : x.hash = hash
    THEN Some(CHOOSE x \in repo : x.hash = hash)
    ELSE None

\* IndexRepository::add_content: upsert under (content table, signature)
AddContent(repo, c) == {x \in repo : x.signature # c.signature} \cup {c}

\* ------------------------------------------------------ protocol responses

\* AuroraStatus codes
StatusOk == 200
StatusInvalidArgument == 400
StatusNotFound == 404
StatusInternalError == 500
ErrorStatuses == {StatusInvalidArgument, StatusNotFound, StatusInternalError}

\* AuroraProtocolResponse::ok / not_found / invalid_argument / internal_error
ResponseOk(payload) == [status |-> StatusOk, payload |-> Some(payload)]
ResponseNotFound == [status |-> StatusNotFound, payload |-> None]
ResponseInvalidArgument == [status |-> StatusInvalidArgument, payload |-> None]
ResponseInternalError == [status |-> StatusInternalError, payload |-> None]

\* ClientError values
Ok == [err |-> "Ok", status |-> StatusOk]
Err(name) == [err |-> name, status |-> 0]
UnexpectedResponseCode(status) ==
    [err |-> "UnexpectedResponseCode", status |-> status]

\* payload_if_ok reporting a status other than the one received
PayloadIfOkWrongStatus(res) ==
    IF res.status # StatusOk THEN UnexpectedResponseCode(StatusInternalError)
    ELSE IF ~res.payload.some THEN Err("MissingPayload")
    ELSE Ok

\* AuroraProtocolResponse::payload_if_ok: the error to return, or Ok
PayloadIfOk(res) ==
    IF res.status # StatusOk THEN UnexpectedResponseCode(res.status)
    ELSE IF ~res.payload.some THEN Err("MissingPayload")
    ELSE Ok

\* ---------------------------------------------------------------- handlers

\* The server state a handler sees: the repositories and the node's identity
\* (AuroraConfig::public_key / private_key).

\* Who::process
WhoProcess(req, st, now) ==
    LET u == GetUser(st.users, PublicKeyOf(st.private_key))
    IN  IF u.some
        THEN ResponseOk(WhoResponseNewSigned(u.value, req.request_address,
                                             st.private_key, now))
        ELSE ResponseNotFound

\* Repositories::get_random_contents: ORDER BY rand() LIMIT count, i.e. any
\* ordering of any min(count, n) of the n stored records
RandomContents(repo, count) ==
    LET k == IF Cardinality(repo) < count THEN Cardinality(repo) ELSE count
    IN  {s \in [1..k -> repo] : \A a, b \in 1..k : a # b => s[a] # s[b]}

\* ExchangeContent::process: every response the handler can give
ExchangeContentProcess(req, st) ==
    {ResponseOk([contents |-> s]) : s \in RandomContents(st.contents, req.count)}
        \cup {ResponseInternalError}

\* GetIndexes::process: each (tag, hash) pair is looked up on its own, a pair
\* of another tag or with no stored index is dropped, and the results are
\* joined in request order. (The handler names the catalog tag NovelTag.)
RECURSIVE GetIndexesResolve(_, _)
GetIndexesResolve(list, st) ==
    IF list = <<>> THEN <<>>
    ELSE LET pair == Head(list)
             r == IF pair[1] = MangaTAG THEN GetIndex(st.indexes, pair[2])
                  ELSE None
         IN  (IF r.some THEN <<r.value>> ELSE <<>>)
                 \o GetIndexesResolve(Tail(list), st)

\* A GetIndexes handler that finds nothing
GetIndexesProcessEmpty(req, st) == ResponseOk([indexes |-> <<>>])

GetIndexesProcess(req, st) ==
    ResponseOk([indexes |-> GetIndexesResolve(req.indexes, st)])

\* ------------------------------------------------------------- the universe

KeyA == "ka"    \* the peer's identity
KeyB == "kb"    \* the local node's identity
KeyX == "kx"    \* somebody else

AddrA == <<97>>     \* the peer's address, the one dialed
AddrB == <<98>>
AddrC == <<99>>
HostAddresses == {AddrB, AddrC}

TitleA == <<77, 121, 32, 84>>   \* "My T"
TitleB == <<98>>                \* "b"
Titles == {TitleA, TitleB}
HashOf(title) == Digest(IndexIdBytes(title, 2024))

IndexA == IndexNewSigned(TitleA, 2024, KeyA)
IndexB == IndexNewSigned(TitleB, 2024, KeyA)

\* The index records a hostile peer puts on the wire: the two properly signed
\* ones, the second one again with the first one's hash in its hash field,
\* and the first one carrying the empty signature.
IndexUniverse ==
    {IndexA, IndexB,
     [IndexB EXCEPT !.hash = HashOf(TitleA)],
     IndexNew(TitleA, 2024, KeyA, SignatureEmpty)}

Magnet == <<109>>

ContentOf(title) == ContentNewSigned(KeyA, HashOf(title), 1, Magnet, <<>>, KeyA)

\* The content records a hostile peer puts on the wire: the two properly
\* signed ones, and the first one signed by somebody else's key.
ContentUniverse ==
    {ContentOf(t) : t \in Titles}
        \cup {[ContentOf(TitleA) EXCEPT
                    !.signature = Sign(KeyX, ContentOf(TitleA).signature.msg)]}

UserA == UserNewSigned(<<65>>, 1, KeyA, AddrA)
UserB(addr) == SetTrust(UserNewSigned(<<66>>, 1, KeyB, addr), "Ignore")

\* Every Who payload a hostile peer may send: the peer's user record with a
\* good or an empty signature, and a freshness signature by either key over
\* the timestamp and any address, or no signature.
WhoUniverse ==
    {[user |-> [UserResponseFrom(UserA) EXCEPT !.signature = us],
      timestamp |-> 1, signature |-> fs] :
        us \in {UserA.signature, SignatureEmpty},
        fs \in {Sign(k, WhoVerificationBytes(1, a)) :
                    k \in {KeyA, KeyX}, a \in HostAddresses}
               \cup {SignatureEmpty}}

\* Responses with no payload: those of an error status (a decoded response
\* of status 200 always has its payload)
ErrorResponses ==
    {[status |-> c, payload |-> None] : c \in ErrorStatuses}

SeqsUpTo(S, n) == UNION {[1..k -> S] : k \in 0..n}

\* ------------------------------------------------------------------- state

VARIABLES
    pc,                 \* where routine_exchange stands
    result,             \* what the finished run returned
    run,                \* number of the current run
    faults,             \* repository errors met in this run
    host_address,       \* AuroraClient::host_address
    peerHostile,        \* the peer answers anything, or runs the handlers
    peer,               \* the honest peer's repositories and key
    users, indexes, contents,       \* the local repositories
    who,                \* the user returned by who_internal
    sample,             \* contents, the ExchangeContent payload
    existing_indexes, missing_indexes,
    respIndexes,        \* response.indexes, the GetIndexes payload
    i,                  \* position of the running for loop
    sent,               \* commands written to the stream in this run
    whoResp,            \* the Who response read in this run
    lastStatus,         \* status of the last response read in this run
    passedIndexes,      \* records handed to add_index in this run
    passedContents,     \* records handed to add_content in this run
    writes,             \* successful repository writes of this run
    start,              \* the local repositories when this run began
    prev                \* the sample and the outcome of the previous run

ctlVars == <<pc, result, run, faults>>
envVars == <<host_address, peerHostile, peer>>
repoVars == <<users, indexes, contents>>
loopVars == <<who, sample, existing_indexes, missing_indexes, respIndexes, i>>
logVars == <<sent, whoResp, lastStatus, passedIndexes, passedContents, writes, start, prev>>

\* One accepted connection of the server
VARIABLES
    conn,               \* where the connection's loop stands
    stream,             \* bytes the peer has written and the loop has not read
    closed,             \* the peer has closed its end
    received,           \* number of bytes the peer has written
    category,           \* the decoded command category
    command,            \* the decoded command
    lastDecode,         \* outcome of the last version decode
    errors,             \* error! lines written by the loop
    handled,            \* commands whose handler has run
    responded           \* responses written to the stream

srvVars == <<conn, stream, closed, received, category, command, lastDecode,
             errors, handled, responded>>

\* The server's accept loop and the tasks it has spawned
VARIABLES
    accepting,          \* the accept loop is running
    tasks               \* per connection: where its task stands

multiVars == <<accepting, tasks>>

\* One connection between a client and the server, as the items written on it
VARIABLES
    c2s,                \* written by the client, not yet read by the server
    s2c,                \* written by the server, not yet read by the client
    cli,                \* the client: requests sent, responses decoded
    srv                 \* the server's task: its place, the request in hand

wireVars == <<c2s, s2c, cli, srv>>

\* A node serving commands: its ServerState and the handler at work
VARIABLES
    node,               \* the repositories and the configuration
    call,               \* the command being processed, or the last one
    reply,              \* what its handler came to
    lookups,            \* GetIndexes: the spawned lookups
    completed           \* GetIndexes: the lookups in the order they finished

handlerVars == <<node, call, reply, lookups, completed>>

\* A value on its way through the wire codec
VARIABLES
    bpc,                \* "Idle", "Value", "Encoded", "Input" or "Decoded"
    wtype,              \* the wire type
    pick,               \* which of the values is encoded (0: none)
    taken,              \* bytes the sink takes in one write (0: all)
    sink,               \* the bytes written, or those a peer sent
    encoded,            \* what encode returned
    decoded,            \* what decode returned
    frames              \* values decoded from the sink so far

byteVars == <<bpc, wtype, pick, taken, sink, encoded, decoded, frames>>

\* Signed records under construction
VARIABLES
    made                \* the inputs, then the records built from them

\* A client operation other than routine_exchange
VARIABLES
    op                  \* the call, the response read, what was returned

\* The configuration behind its reader-writer lock, the Who handlers that
\* read it and the settings view that saves it
VARIABLES
    config,             \* ServerState::config, the AuroraConfig in the RwLock
    rwlock,             \* who holds the RwLock
    whoTasks,           \* per Who handler: where Who::process stands
    saving              \* SettingsMessage::SaveConfig: where its future stands

cfgVars == <<config, rwlock, whoTasks, saving>>

\* A peer that may fall silent, and the time the exchange has waited for it
VARIABLES
    stalled,            \* the peer sends nothing more, the stream stays open
    elapsed             \* time has passed since the peer fell silent

waitVars == <<stalled, elapsed>>

\* The application's periodic exchange
VARIABLES
    exchanging,         \* AppState::exchanging
    initialised,        \* AppState::client and AppState::repositories are Some
    uiTasks,            \* the futures Message::Exchange has started
    finishes,           \* FinishExchange messages delivered, not yet handled
    ticks               \* Exchange messages handled

uiVars == <<exchanging, initialised, uiTasks, finishes, ticks>>

opVars == <<op, cfgVars, waitVars, uiVars>>

pureVars == <<byteVars, made, opVars>>

exchVars == <<ctlVars, envVars, repoVars, loopVars, logVars>>
auxVars == <<multiVars, wireVars, handlerVars, pureVars>>
vars == <<exchVars, srvVars, auxVars>>

\* Connections the accept loop takes
Conns == 1..MaxConns

\* A connection that has not been accepted yet
NoTask == [conn |-> "NotAccepted", handled |-> 0, responded |-> 0, errors |-> 0]

\* The accept loop before its first accept
Listening == accepting = TRUE /\ tasks = [c \in Conns |-> NoTask]

\* No request in hand
NoRequest == [cmd |-> "None", k |-> 0]

\* A connection just opened: nothing written, the task at its version decode
WireOpen ==
    /\ c2s = <<>>
    /\ s2c = <<>>
    /\ cli = [pc |-> "Open", sent |-> <<>>, got |-> <<>>]
    /\ srv = [pc |-> "AwaitVersion", cur |-> NoRequest, reads |-> 0, writes |-> 0]

\* A node with empty repositories
NoNode ==
    [private_key |-> KeyA, users |-> {}, indexes |-> {}, contents |-> {},
     posts |-> {}]

NoCall == [cmd |-> "None"]
NoReply == [kind |-> "None"]

\* No command has been processed yet
NoHandler ==
    call = NoCall /\ reply = NoReply /\ lookups = <<>> /\ completed = <<>>

\* Nothing is being encoded or decoded
ByteIdle ==
    /\ bpc = "Idle"
    /\ wtype = [k |-> "unit"]
    /\ pick = 0
    /\ taken = 0
    /\ sink = <<>>
    /\ encoded = [ok |-> FALSE, bytes |-> <<>>]
    /\ decoded = [ok |-> FALSE]
    /\ frames = 0

\* No record is under construction
NoRecord == [kind |-> "None"]

\* No client operation has been called
NoOp == [name |-> "None"]

\* KeyPair::new inside an AuroraConfig
ConfigOf(private_key, dev_mode) ==
    [private_key |-> private_key, public_key |-> PublicKeyOf(private_key),
     dev_mode |-> dev_mode]

\* Handlers of Who running side by side
WhoHandlers == 1..2

Unlocked == [readers |-> {}, writer |-> FALSE]
NoWho == [at |-> "Idle", request_address |-> <<>>, user |-> None, reply |-> None]
NoSave == [at |-> "Idle", config_to_save |-> ConfigOf(KeyA, FALSE), saves |-> 0]

\* Nobody reads or saves the configuration
CfgIdle ==
    /\ config = ConfigOf(KeyA, FALSE)
    /\ rwlock = Unlocked
    /\ whoTasks = [t \in WhoHandlers |-> NoWho]
    /\ saving = NoSave

\* The peer answers
Answering == stalled = FALSE /\ elapsed = FALSE

\* AppState::new: exchanging: false, nothing started
UiIdle ==
    /\ exchanging = FALSE /\ initialised = FALSE
    /\ uiTasks = <<>> /\ finishes = 0 /\ ticks = 0

OpIdle == op = NoOp /\ CfgIdle /\ Answering /\ UiIdle

PureIdle == ByteIdle /\ made = NoRecord /\ OpIdle

AuxIdle == Listening /\ WireOpen /\ node = NoNode /\ NoHandler /\ PureIdle

\* A connection that has just been accepted
Accepted ==
    /\ conn = "AwaitVersion" /\ stream = <<>> /\ closed = FALSE
    /\ received = 0 /\ category = "none" /\ command = "none"
    /\ lastDecode = "none" /\ errors = 0 /\ handled = 0 /\ responded = 0

NoWrites == [user |-> 0, index |-> 0, content |-> 0]
NoPrev == [some |-> FALSE]

\* The honest peer: a node that holds its own signed user record once its
\* identity is established, indexes it signed and contents it signed, each
\* content under an index it holds.
PeerStates ==
    {st \in [private_key : {KeyA},
             users : {{}, {SetTrust(UserA, "Ignore")}},
             indexes : SUBSET {IndexA, IndexB},
             contents : SUBSET {ContentOf(t) : t \in Titles}] :
        \A c \in st.contents : \E ix \in st.indexes : ix.hash = c.index_hash}

NoPeer == [private_key |-> KeyA, users |-> {}, indexes |-> {}, contents |-> {}]

Init ==
    /\ pc = "idle" /\ result = Err("none") /\ run = 1 /\ faults = 0
    /\ host_address \in HostAddresses
    /\ peerHostile \in BOOLEAN
    /\ peer \in (IF peerHostile THEN {NoPeer} ELSE PeerStates)
    /\ users = {UserB(host_address)}
    /\ indexes \in SUBSET {IndexA}
    /\ contents = {}
    /\ who = None /\ sample = <<>> /\ existing_indexes = {}
    /\ missing_indexes = <<>> /\ respIndexes = <<>> /\ i = 1
    /\ sent = <<>> /\ whoResp = None /\ lastStatus = 0
    /\ passedIndexes = {} /\ passedContents = {} /\ writes = NoWrites
    /\ start = [users |-> users, indexes |-> indexes, contents |-> contents]
    /\ prev = NoPrev
    /\ Accepted
    /\ AuxIdle

\* return Err(e) / Ok(()) from routine_exchange
Finish(r) == pc' = "done" /\ result' = r

\* ------------------------------------------------------------ the exchange

\* get_stream: Session::connect to the peer, or a YosemiteError
Connect ==
    /\ pc = "idle"
    /\ \E connected \in BOOLEAN :
        IF connected THEN pc' = "who" /\ UNCHANGED result
        ELSE Finish(Err("YosemiteError"))
    /\ UNCHANGED <<run, faults, envVars, srvVars, auxVars, repoVars, loopVars, logVars>>

\* What the peer answers to Who
WhoResponses ==
    IF peerHostile THEN {ResponseOk(w) : w \in WhoUniverse} \cup ErrorResponses
    ELSE {WhoProcess([request_address |-> host_address], peer, 1)}

\* enum TrustLevel, in the order declared
TrustLevels == <<"Ignore", "Unverified", "Untrusted", "Trusted", "FullTrust">>
TrustRank(t) == CHOOSE j \in 1..Len(TrustLevels) : TrustLevels[j] = t

\* A who_internal that gives the peer the highest level
IdentifiedTrustFull == "FullTrust"
\* who_internal: user.set_trust(TrustLevel::Untrusted)
IdentifiedTrust == "Untrusted"

\* who_internal without the user record's own check
WhoInternalNoUserVerify(res, host) ==
    IF res.status # StatusOk
    THEN [result |-> UnexpectedResponseCode(res.status), user |-> None]
    ELSE IF ~res.payload.some
    THEN [result |-> Err("MissingPayload"), user |-> None]
    ELSE IF ~WhoResponseVerify(res.payload.value, host)
    THEN [result |-> Err("InvalidSignature"), user |-> None]
    ELSE [result |-> Ok,
          user |-> Some(SetTrust(AsUser(res.payload.value.user), IdentifiedTrust))]

\* who_internal, after the response is decoded: the status, the payload, the
\* freshness signature under the own host address, the user's signature,
\* then trust := Untrusted
WhoInternal(res, host) ==
    IF res.status # StatusOk
    THEN [result |-> UnexpectedResponseCode(res.status), user |-> None]
    ELSE IF ~res.payload.some
    THEN [result |-> Err("MissingPayload"), user |-> None]
    ELSE IF ~WhoResponseVerify(res.payload.value, host)
    THEN [result |-> Err("InvalidSignature"), user |-> None]
    ELSE IF ~UserVerify(AsUser(res.payload.value.user))
    THEN [result |-> Err("InvalidSignature"), user |-> None]
    ELSE [result |-> Ok,
          user |-> Some(SetTrust(AsUser(res.payload.value.user), IdentifiedTrust))]

\* who_internal: Who::request (encode the request, decode the response),
\* then the checks
WhoStep ==
    /\ pc = "who"
    /\ \/ /\ Finish(Err("EncodeError"))
          /\ UNCHANGED <<who, sent, whoResp, lastStatus>>
       \/ /\ Finish(Err("DecodeError"))
          /\ sent' = Append(sent, "Who")
          /\ UNCHANGED <<who, whoResp, lastStatus>>
       \/ \E res \in WhoResponses :
            LET r == WhoInternal(res, host_address)
            IN  /\ sent' = Append(sent, "Who")
                /\ whoResp' = Some(res)
                /\ lastStatus' = res.status
                /\ who' = r.user
                /\ IF r.result = Ok THEN pc' = "upsert" /\ UNCHANGED result
                   ELSE Finish(r.result)
    /\ UNCHANGED <<run, faults, envVars, srvVars, auxVars, repoVars, sample,
                   existing_indexes,
                   missing_indexes, respIndexes, i, passedIndexes,
                   passedContents, writes, start, prev>>

\* A routine_exchange that asks for contents without storing the peer's user
UpsertStepSkipped ==
    /\ pc = "upsert"
    /\ pc' = "sample"
    /\ UNCHANGED <<result, run, faults, envVars, srvVars, auxVars, repoVars,
                   loopVars, logVars>>

\* self.repositories.user().await.upsert_user(who).await?
UpsertStep ==
    /\ pc = "upsert"
    /\ \/ /\ users' = UpsertUser(users, who.value)
          /\ writes' = [writes EXCEPT !.user = @ + 1]
          /\ pc' = "sample"
          /\ UNCHANGED <<result, faults>>
       \/ /\ faults < MaxFaults
          /\ faults' = faults + 1
          /\ Finish(Err("DatabaseError"))
          /\ UNCHANGED <<users, writes>>
    /\ UNCHANGED <<run, envVars, srvVars, auxVars, indexes, contents, loopVars, sent,
                   whoResp,
                   lastStatus, passedIndexes, passedContents, start, prev>>

\* What the peer answers to ExchangeContent
ExchangeContentResponses ==
    IF peerHostile
    THEN {ResponseOk([contents |-> s]) : s \in SeqsUpTo(ContentUniverse, MaxSample)}
            \cup ErrorResponses
    ELSE ExchangeContentProcess([count |-> ExchangeCount], peer)

\* ExchangeContent::request(count: 10), then payload_if_ok()?.contents
SampleStep ==
    /\ pc = "sample"
    /\ \/ /\ Finish(Err("EncodeError"))
          /\ UNCHANGED <<sample, sent, lastStatus>>
       \/ /\ Finish(Err("DecodeError"))
          /\ sent' = Append(sent, "ExchangeContent")
          /\ UNCHANGED <<sample, lastStatus>>
       \/ \E res \in ExchangeContentResponses :
            /\ sent' = Append(sent, "ExchangeContent")
            /\ lastStatus' = res.status
            /\ IF PayloadIfOk(res) = Ok
               THEN /\ sample' = res.payload.value.contents
                    /\ pc' = "diff"
                    /\ UNCHANGED result
               ELSE /\ Finish(PayloadIfOk(res))
                    /\ UNCHANGED sample
    /\ i' = 1
    /\ existing_indexes' = {}
    /\ missing_indexes' = <<>>
    /\ UNCHANGED <<run, faults, envVars, srvVars, auxVars, repoVars, who, respIndexes,
                   whoResp,
                   passedIndexes, passedContents, writes, start, prev>>

\* A Diff loop that finds no index held
DiffFindsNever(repo, hash) == FALSE

\* `Ok(Some(_))` of the Diff loop's get_index
DiffFinds(repo, hash) == GetIndex(repo, hash).some

\* One turn of `for content in contents.iter()`: get_index on the content's
\* index_hash; Some -> existing_indexes, None -> missing_indexes (pushed, with
\* no look at what the list holds), Err -> logged
DiffStep ==
    /\ pc = "diff"
    /\ i <= Len(sample)
    /\ LET h == sample[i].index_hash
       IN  \/ /\ IF DiffFinds(indexes, h)
                 THEN /\ existing_indexes' = existing_indexes \cup {h}
                      /\ UNCHANGED missing_indexes
                 ELSE /\ missing_indexes' = Append(missing_indexes, <<MangaTAG, h>>)
                      /\ UNCHANGED existing_indexes
              /\ UNCHANGED faults
           \/ /\ faults < MaxFaults
              /\ faults' = faults + 1
              /\ UNCHANGED <<existing_indexes, missing_indexes>>
    /\ i' = i + 1
    /\ UNCHANGED <<pc, result, run, envVars, srvVars, auxVars, repoVars, who, sample,
                   respIndexes, logVars>>

\* What the peer answers to GetIndexes
GetIndexesResponses ==
    IF peerHostile
    THEN {ResponseOk([indexes |-> s]) : s \in SeqsUpTo(IndexUniverse, MaxResp)}
            \cup ErrorResponses
    ELSE {GetIndexesProcess([indexes |-> missing_indexes], peer)}

\* GetIndexes::request(missing_indexes), then payload_if_ok()?
GetIndexesStep ==
    /\ pc = "diff"
    /\ i > Len(sample)
    /\ \/ /\ Finish(Err("EncodeError"))
          /\ UNCHANGED <<respIndexes, sent, lastStatus>>
       \/ /\ Finish(Err("DecodeError"))
          /\ sent' = Append(sent, "GetIndexes")
          /\ UNCHANGED <<respIndexes, lastStatus>>
       \/ \E res \in GetIndexesResponses :
            /\ sent' = Append(sent, "GetIndexes")
            /\ lastStatus' = res.status
            /\ IF PayloadIfOk(res) = Ok
               THEN /\ respIndexes' = res.payload.value.indexes
                    /\ pc' = IF Len(respIndexes') = 0 THEN "commit" ELSE "backfill"
                    /\ UNCHANGED result
               ELSE /\ Finish(PayloadIfOk(res))
                    /\ UNCHANGED respIndexes
    /\ i' = 1
    /\ UNCHANGED <<run, faults, envVars, srvVars, auxVars, repoVars, who, sample,
                   existing_indexes, missing_indexes, whoResp, passedIndexes,
                   passedContents, writes, start, prev>>

\* A Backfill loop without the verify check
BackfillAcceptsAll(index) == TRUE

\* `if !index.verify() { continue }` of the Backfill loop
BackfillAccepts(index) == IndexVerify(index)

\* One turn of `for index in response.indexes`: an index that fails verify is
\* logged and skipped; the others go to add_index, and the hash of the stored
\* record enters existing_indexes unless the repository fails
BackfillStep ==
    /\ pc = "backfill"
    /\ i <= Len(respIndexes)
    /\ LET index == IndexDecode(respIndexes[i])
       IN  IF ~BackfillAccepts(index)
           THEN UNCHANGED <<indexes, existing_indexes, passedIndexes, writes,
                            faults>>
           ELSE /\ passedIndexes' = passedIndexes \cup {index}
                /\ \/ /\ indexes' = AddIndex(indexes, index)
                      /\ existing_indexes' = existing_indexes \cup {index.hash}
                      /\ writes' = [writes EXCEPT !.index = @ + 1]
                      /\ UNCHANGED faults
                   \/ /\ faults < MaxFaults
                      /\ faults' = faults + 1
                      /\ UNCHANGED <<indexes, existing_indexes, writes>>
    /\ IF i = Len(respIndexes)
       THEN pc' = "commit" /\ i' = 1
       ELSE pc' = pc /\ i' = i + 1
    /\ UNCHANGED <<result, run, envVars, srvVars, auxVars, users, contents, who, sample,
                   missing_indexes, respIndexes, sent, whoResp, lastStatus,
                   passedContents, start, prev>>

\* A Commit loop without the existing_indexes check
CommitAcceptsUngated(content, existing) == ContentVerify(content)

\* A Commit loop that takes the contents whose index is unknown
CommitAcceptsInverted(content, existing) ==
    /\ content.index_hash \notin existing
    /\ ContentVerify(content)

\* The two `continue` checks of the Commit loop: the content's index_hash is
\* in existing_indexes, and the content verifies
CommitAccepts(content, existing) ==
    /\ content.index_hash \in existing
    /\ ContentVerify(content)

\* One turn of `for content in contents.into_iter()`: skipped unless its
\* index_hash is in existing_indexes, skipped (logged) if verify fails,
\* otherwise handed to add_content, whose error is logged
CommitStep ==
    /\ pc = "commit"
    /\ i <= Len(sample)
    /\ LET content == sample[i]
       IN  IF ~CommitAccepts(content, existing_indexes)
           THEN UNCHANGED <<contents, passedContents, writes, faults>>
           ELSE /\ passedContents' = passedContents \cup {content}
                /\ \/ /\ contents' = AddContent(contents, content)
                      /\ writes' = [writes EXCEPT !.content = @ + 1]
                      /\ UNCHANGED faults
                   \/ /\ faults < MaxFaults
                      /\ faults' = faults + 1
                      /\ UNCHANGED <<contents, writes>>
    /\ i' = i + 1
    /\ UNCHANGED <<pc, result, run, envVars, srvVars, auxVars, users, indexes, who,
                   sample,
                   existing_indexes, missing_indexes, respIndexes, sent,
                   whoResp, lastStatus, passedIndexes, start, prev>>

\* A routine_exchange that ends by reporting a repository error of its loops
ReturnLoopError ==
    /\ pc = "commit"
    /\ i > Len(sample)
    /\ Finish(IF faults > 0 THEN Err("DatabaseError") ELSE Ok)
    /\ UNCHANGED <<run, faults, envVars, srvVars, auxVars, repoVars, loopVars, logVars>>

\* Ok(()) once the last loop is through
ReturnOk ==
    /\ pc = "commit"
    /\ i > Len(sample)
    /\ Finish(Ok)
    /\ UNCHANGED <<run, faults, envVars, srvVars, auxVars, repoVars, loopVars, logVars>>

\* The caller runs routine_exchange once more against the same peer, whose
\* repositories have not changed.
Rerun ==
    /\ pc = "done"
    /\ run < MaxRuns
    /\ ~peerHostile
    /\ pc' = "idle" /\ result' = Err("none") /\ run' = run + 1 /\ faults' = 0
    /\ who' = None /\ sample' = <<>> /\ existing_indexes' = {}
    /\ missing_indexes' = <<>> /\ respIndexes' = <<>> /\ i' = 1
    /\ sent' = <<>> /\ whoResp' = None /\ lastStatus' = 0
    /\ passedIndexes' = {} /\ passedContents' = {} /\ writes' = NoWrites
    /\ start' = [users |-> users, indexes |-> indexes, contents |-> contents]
    /\ prev' = [some |-> TRUE, sample |-> sample, result |-> result,
                faults |-> faults, pc |-> pc]
    /\ UNCHANGED <<envVars, srvVars, auxVars, repoVars>>

Next ==
    \/ Connect
    \/ WhoStep
    \/ UpsertStep
    \/ SampleStep
    \/ DiffStep
    \/ GetIndexesStep
    \/ BackfillStep
    \/ CommitStep
    \/ ReturnOk
    \/ Rerun

Spec == Init /\ [][Next]_vars

\* --------------------------------------------------------------- the server

\* AuroraProtocolVersion: V1 = 1
VersionOf(byte) == IF byte = 1 THEN Some("V1") ELSE None

\* handler!(V1, ...): Users(0), Index(1)
CategoryOf(byte) ==
    IF byte = 0 THEN Some("Users")
    ELSE IF byte = 1 THEN Some("Index")
    ELSE None

\* handler!(V1, ...): Users { GetUsers(0), Who(1) },
\* Index { GetAllIndexes(0), ExchangeContent(1), GetIndexes(2) }
CommandOf(cat, byte) ==
    IF cat = "Users"
    THEN IF byte = 0 THEN Some("GetUsers")
         ELSE IF byte = 1 THEN Some("Who")
         ELSE None
    ELSE IF byte = 0 THEN Some("GetAllIndexes")
         ELSE IF byte = 1 THEN Some("ExchangeContent")
         ELSE IF byte = 2 THEN Some("GetIndexes")
         ELSE None

\* An Err arm that writes every error
VersionErrorLoggedAlways(kind) == TRUE

\* The Err arm of the version decode: UnexpectedEof is passed over, any other
\* io error and any other decode error is written with error!
VersionErrorLogged(kind) == kind # "UnexpectedEof"

\* The peer writes one more byte
PeerWrite ==
    /\ ~closed /\ received < MaxBytes
    /\ \E b \in WireBytes : stream' = Append(stream, b)
    /\ received' = received + 1
    /\ UNCHANGED <<conn, closed, category, command, lastDecode, errors,
                   handled, responded>>
    /\ UNCHANGED <<exchVars, auxVars>>

\* The peer closes its end
PeerClose ==
    /\ ~closed
    /\ closed' = TRUE
    /\ UNCHANGED <<conn, stream, received, category, command, lastDecode,
                   errors, handled, responded>>
    /\ UNCHANGED <<exchVars, auxVars>>

\* The Err arm: log unless UnexpectedEof, then break
VersionFailed(kind) ==
    /\ lastDecode' = kind
    /\ errors' = (IF VersionErrorLogged(kind) THEN errors + 1 ELSE errors)
    /\ conn' = "Ended"

\* AuroraProtocolVersion::decode at the head of the loop: a version byte, the
\* end of a closed stream, another io error, or a byte that is no version
DecodeVersion ==
    /\ conn = "AwaitVersion"
    /\ \/ /\ stream # <<>> /\ VersionOf(Head(stream)).some
          /\ stream' = Tail(stream)
          /\ lastDecode' = "Ok" /\ conn' = "DecodeCategory"
          /\ UNCHANGED errors
       \/ /\ stream # <<>> /\ ~VersionOf(Head(stream)).some
          /\ stream' = Tail(stream)
          /\ VersionFailed("InvalidEnumVariant")
       \/ /\ stream = <<>> /\ closed
          /\ VersionFailed("UnexpectedEof")
          /\ UNCHANGED stream
       \/ /\ stream = <<>>
          /\ VersionFailed("ConnectionReset")
          /\ UNCHANGED stream
    /\ UNCHANGED <<closed, received, category, command, handled, responded>>
    /\ UNCHANGED <<exchVars, auxVars>>

\* V1::handle: AuroraProtocolCommandCategoryV1::decode(stream).await.unwrap()
DecodeCategory ==
    /\ conn = "DecodeCategory"
    /\ \/ /\ stream # <<>> /\ CategoryOf(Head(stream)).some
          /\ category' = CategoryOf(Head(stream)).value
          /\ stream' = Tail(stream) /\ conn' = "DecodeCommand"
       \/ /\ stream # <<>> /\ ~CategoryOf(Head(stream)).some
          /\ stream' = Tail(stream) /\ conn' = "Panicked"
          /\ UNCHANGED category
       \/ /\ stream = <<>> /\ closed
          /\ conn' = "Panicked"
          /\ UNCHANGED <<stream, category>>
    /\ UNCHANGED <<closed, received, command, lastDecode, errors, handled,
                   responded>>
    /\ UNCHANGED <<exchVars, auxVars>>

\* V1::handle: the category's command enum, decode(stream).await.unwrap()
DecodeCommand ==
    /\ conn = "DecodeCommand"
    /\ \/ /\ stream # <<>> /\ CommandOf(category, Head(stream)).some
          /\ command' = CommandOf(category, Head(stream)).value
          /\ stream' = Tail(stream) /\ conn' = "Dispatch"
       \/ /\ stream # <<>> /\ ~CommandOf(category, Head(stream)).some
          /\ stream' = Tail(stream) /\ conn' = "Panicked"
          /\ UNCHANGED command
       \/ /\ stream = <<>> /\ closed
          /\ conn' = "Panicked"
          /\ UNCHANGED <<stream, command>>
    /\ UNCHANGED <<closed, received, category, lastDecode, errors, handled,
                   responded>>
    /\ UNCHANGED <<exchVars, auxVars>>

\* AuroraProtocolCommandHandler::handle: the request payload is decoded from
\* as many bytes as it takes (unwrap), the command is processed, the response
\* is encoded to the stream (unwrap)
Dispatch ==
    /\ conn = "Dispatch"
    /\ \E n \in 0..Len(stream) :
        /\ stream' = SubSeq(stream, n + 1, Len(stream))
        /\ \/ /\ handled' = handled + 1 /\ responded' = responded + 1
              /\ conn' = "AwaitVersion"
           \/ /\ handled' = handled + 1
              /\ conn' = "Panicked"
              /\ UNCHANGED responded
           \/ /\ conn' = "Panicked"
              /\ UNCHANGED <<handled, responded>>
    /\ UNCHANGED <<closed, received, category, command, lastDecode, errors>>
    /\ UNCHANGED <<exchVars, auxVars>>

ServerNext ==
    \/ PeerWrite
    \/ PeerClose
    \/ DecodeVersion
    \/ DecodeCategory
    \/ DecodeCommand
    \/ Dispatch

\* The server with one accepted connection; no exchange is run
\* No exchange is run and the connection has just been accepted
Parked ==
    /\ pc = "idle" /\ result = Err("none") /\ run = 1 /\ faults = 0
    /\ host_address = AddrB /\ peerHostile = FALSE /\ peer = NoPeer
    /\ users = {UserB(AddrB)} /\ indexes = {} /\ contents = {}
    /\ who = None /\ sample = <<>> /\ existing_indexes = {}
    /\ missing_indexes = <<>> /\ respIndexes = <<>> /\ i = 1
    /\ sent = <<>> /\ whoResp = None /\ lastStatus = 0
    /\ passedIndexes = {} /\ passedContents = {} /\ writes = NoWrites
    /\ start = [users |-> users, indexes |-> indexes, contents |-> contents]
    /\ prev = NoPrev
    /\ Accepted

ServerInit == Parked /\ AuxIdle

ServerSpec == ServerInit /\ [][ServerNext]_vars

\* ------------------------------------------------- the server's connections

\* A panic that reaches every task of the server
PanicReachAll(c) == Conns

\* tokio::spawn(async move { ... }): a panic unwinds the spawned task alone
PanicReach(c) == {c}

\* The task's loop has neither ended nor panicked
Alive(t) ==
    t.conn \in {"AwaitVersion", "DecodeCategory", "DecodeCommand", "Dispatch"}

\* sam_session.accept().await gives the next stream; its task is spawned and
\* the accept loop goes on to the next accept
Accept ==
    /\ accepting
    /\ \E c \in Conns :
        /\ tasks[c].conn = "NotAccepted"
        /\ \A d \in Conns : d < c => tasks[d].conn # "NotAccepted"
        /\ tasks' = [tasks EXCEPT ![c].conn = "AwaitVersion"]
    /\ UNCHANGED accepting
    /\ UNCHANGED <<exchVars, srvVars, wireVars, handlerVars, pureVars>>

\* `while let Ok(..) = sam_session.accept().await` meets an Err: run returns
AcceptFails ==
    /\ accepting
    /\ accepting' = FALSE
    /\ UNCHANGED tasks
    /\ UNCHANGED <<exchVars, srvVars, wireVars, handlerVars, pureVars>>

\* What one turn of a task's decode steps can come to, whatever its stream
\* holds: the version (or the end of the stream, or an error that is
\* logged), the category and the command (or a panic)
DecodeOutcomes(t) ==
    IF t.conn = "AwaitVersion"
    THEN (IF t.handled < MaxHandled
          THEN {[t EXCEPT !.conn = "DecodeCategory"]} ELSE {})
         \cup {[t EXCEPT !.conn = "Ended"],
               [t EXCEPT !.conn = "Ended", !.errors = @ + 1]}
    ELSE IF t.conn = "DecodeCategory"
    THEN {[t EXCEPT !.conn = "DecodeCommand"], [t EXCEPT !.conn = "Panicked"]}
    ELSE {[t EXCEPT !.conn = "Dispatch"], [t EXCEPT !.conn = "Panicked"]}

\* What the handler's turn can come to: the response written, or a panic
\* before or after the command was processed
DispatchOutcomes(t) ==
    {[t EXCEPT !.conn = "AwaitVersion", !.handled = @ + 1, !.responded = @ + 1],
     [t EXCEPT !.conn = "Panicked", !.handled = @ + 1],
     [t EXCEPT !.conn = "Panicked"]}

\* The tasks after task c has come to t: a panic ends the tasks it reaches
TasksAfter(c, t) ==
    [d \in Conns |->
        IF d = c THEN t
        ELSE IF t.conn = "Panicked" /\ d \in PanicReach(c) /\ Alive(tasks[d])
        THEN [tasks[d] EXCEPT !.conn = "Panicked"]
        ELSE tasks[d]]

\* One decode step of the task of connection c
TaskDecode(c) ==
    /\ tasks[c].conn \in {"AwaitVersion", "DecodeCategory", "DecodeCommand"}
    /\ \E t \in DecodeOutcomes(tasks[c]) : tasks' = TasksAfter(c, t)
    /\ UNCHANGED accepting
    /\ UNCHANGED <<exchVars, srvVars, wireVars, handlerVars, pureVars>>

\* The handler's turn in the task of connection c
TaskDispatch(c) ==
    /\ tasks[c].conn = "Dispatch"
    /\ \E t \in DispatchOutcomes(tasks[c]) : tasks' = TasksAfter(c, t)
    /\ UNCHANGED accepting
    /\ UNCHANGED <<exchVars, srvVars, wireVars, handlerVars, pureVars>>

MultiNext ==
    \/ Accept
    \/ AcceptFails
    \/ \E c \in Conns : TaskDecode(c)
    \/ \E c \in Conns : TaskDispatch(c)

\* The server before its first accept; no exchange is run
MultiInit == ServerInit

MultiSpec == MultiInit /\ [][MultiNext]_vars

\* ------------------------------------------------------ one connection's wire

\* AuroraProtocolVersion::V1 = 1
VERSION == 1

\* The commands of handler!(V1, ...)
Commands == {"GetUsers", "Who", "GetAllIndexes", "ExchangeContent", "GetIndexes"}

\* A handler table that gives two commands of a category one discriminant
COMMAND_Clash(X) == IF X \in {"GetUsers", "Who"} THEN 0 ELSE 1

\* AuroraProtocolCommandMetadata::COMMAND_CATEGORY: Users(0), Index(1)
COMMAND_CATEGORY(X) == IF X \in {"GetUsers", "Who"} THEN 0 ELSE 1

\* AuroraProtocolCommandMetadata::COMMAND
COMMAND(X) ==
    IF X = "GetUsers" THEN 0
    ELSE IF X = "Who" THEN 1
    ELSE IF X = "GetAllIndexes" THEN 0
    ELSE IF X = "ExchangeContent" THEN 1
    ELSE 2

\* type RequestPayload / type ResponsePayload of each command
RequestPayload(X) == X \o "Request"
ResponsePayload(X) == X \o "Response"

\* One byte on the wire, and one encoded value of a payload type (its own
\* codec taken as a round trip); v ties a payload to the request it is of
U8(n) == [type |-> "u8", v |-> n]
Encoded(type, k) == [type |-> type, v |-> k]
Bytes(ns) == [j \in 1..Len(ns) |-> U8(ns[j])]

\* encode_request: VERSION, COMMAND_CATEGORY, COMMAND
EncodeRequestHeader(X) == Bytes(<<VERSION, COMMAND_CATEGORY(X), COMMAND(X)>>)

\* AuroraProtocolRequest::encode: the header, then the payload
EncodeRequest(X, k) ==
    EncodeRequestHeader(X) \o <<Encoded(RequestPayload(X), k)>>

\* AuroraStatus::encode: the code as u16, then the message of an error
EncodeStatus(code, k) ==
    Bytes(BeBytes(code, 2))
        \o (IF code \in ErrorStatuses THEN <<Encoded("String", k)>> ELSE <<>>)

\* AuroraProtocolResponse::encode: the status, then the payload if there is one
EncodeResponse(res, type, k) ==
    EncodeStatus(res.status, k)
        \o (IF res.payload.some THEN <<Encoded(type, k)>> ELSE <<>>)

\* What a decode comes to: a value and the items left, or an error
Decoded(value, k, rest) == [ok |-> TRUE, value |-> value, k |-> k, rest |-> rest]
DecodeFailed(kind) == [ok |-> FALSE, kind |-> kind]

\* A decode of a response that takes a payload after every status
DecodeResponseAlwaysPayload(items, type) ==
    IF Len(items) < 2 \/ items[1].type # "u8" \/ items[2].type # "u8"
    THEN DecodeFailed("IoError")
    ELSE LET code == items[1].v * 256 + items[2].v IN
         IF code \notin ErrorStatuses \cup {StatusOk}
         THEN DecodeFailed("InvalidEnumVariant")
         ELSE IF Len(items) < 3 THEN DecodeFailed("IoError")
         ELSE Decoded([status |-> code, payload |-> Some(items[3])],
                      items[3].v, SubSeq(items, 4, Len(items)))

\* AuroraProtocolResponse::decode: the status (read_u16, with the message of
\* an error), then the payload of an Ok status only
DecodeResponse(items, type) ==
    IF Len(items) < 2 \/ items[1].type # "u8" \/ items[2].type # "u8"
    THEN DecodeFailed("IoError")
    ELSE LET code == items[1].v * 256 + items[2].v IN
         IF code \notin ErrorStatuses \cup {StatusOk}
         THEN DecodeFailed("InvalidEnumVariant")
         ELSE IF Len(items) < 3 THEN DecodeFailed("IoError")
         ELSE IF code \in ErrorStatuses
         THEN IF items[3].type # "String" THEN DecodeFailed("FromUtf8Error")
              ELSE Decoded([status |-> code, payload |-> None],
                           items[3].v, SubSeq(items, 4, Len(items)))
         ELSE IF items[3].type # type THEN DecodeFailed("IoError")
         ELSE Decoded([status |-> code, payload |-> Some(items[3])],
                      items[3].v, SubSeq(items, 4, Len(items)))

\* The statuses each handler's process returns
HandlerStatuses(X) ==
    IF X = "Who" THEN {StatusOk, StatusNotFound}
    ELSE IF X = "GetAllIndexes" THEN {StatusOk, StatusInvalidArgument}
    ELSE IF X \in {"ExchangeContent", "GetUsers"}
    THEN {StatusOk, StatusInternalError}
    ELSE {StatusOk}

\* A response of the given status, as the constructors build it
ResponseOf(code, X, k) ==
    IF code = StatusOk THEN ResponseOk(Encoded(ResponsePayload(X), k))
    ELSE [status |-> code, payload |-> None]

\* A client that writes its next request whatever it has read
MaySendAlways(c) == TRUE

\* AuroraProtocolCommand::request: the response is decoded before request
\* returns, so every earlier request has its response when the next is sent
MaySend(c) == Len(c.got) = Len(c.sent)

\* request: req.encode(stream)
ClientSend ==
    /\ cli.pc = "Open"
    /\ Len(cli.sent) < MaxReq
    /\ MaySend(cli)
    /\ \E X \in Commands :
        /\ c2s' = c2s \o EncodeRequest(X, Len(cli.sent) + 1)
        /\ cli' = [cli EXCEPT !.sent = Append(@, X)]
    /\ UNCHANGED <<s2c, srv>>
    /\ UNCHANGED <<exchVars, srvVars, multiVars, handlerVars, pureVars>>

\* request: AuroraProtocolResponse::decode(stream), for the oldest request
\* that has no response yet
ClientRecv ==
    /\ cli.pc = "Open"
    /\ Len(cli.got) < Len(cli.sent)
    /\ s2c # <<>>
    /\ LET X == cli.sent[Len(cli.got) + 1]
           d == DecodeResponse(s2c, ResponsePayload(X))
       IN  IF d.ok
           THEN /\ cli' = [cli EXCEPT !.got =
                            Append(@, [res |-> d.value, k |-> d.k])]
                /\ s2c' = d.rest
           ELSE /\ cli' = [cli EXCEPT !.pc = "Failed"]
                /\ s2c' = <<>>
    /\ UNCHANGED <<c2s, srv>>
    /\ UNCHANGED <<exchVars, srvVars, multiVars, handlerVars, pureVars>>

\* The task's turn from the version byte to the decoded payload of the
\* command's handler
ServeDecode ==
    /\ srv.pc = "AwaitVersion"
    /\ Len(c2s) >= 4
    /\ LET version == IF c2s[1].type = "u8" THEN VersionOf(c2s[1].v) ELSE None
           cat == IF c2s[2].type = "u8" THEN CategoryOf(c2s[2].v) ELSE None
           cmd == IF cat.some /\ c2s[3].type = "u8"
                  THEN CommandOf(cat.value, c2s[3].v) ELSE None
       IN  IF ~version.some
           THEN /\ srv' = [srv EXCEPT !.pc = "Ended"]
                /\ c2s' = Tail(c2s)
           ELSE IF ~cmd.some \/ c2s[4].type # RequestPayload(cmd.value)
           THEN /\ srv' = [srv EXCEPT !.pc = "Panicked"]
                /\ c2s' = SubSeq(c2s, 4, Len(c2s))
           ELSE /\ srv' = [srv EXCEPT !.pc = "Dispatch", !.reads = @ + 1,
                               !.cur = [cmd |-> cmd.value, k |-> c2s[4].v]]
                /\ c2s' = SubSeq(c2s, 5, Len(c2s))
    /\ UNCHANGED <<s2c, cli>>
    /\ UNCHANGED <<exchVars, srvVars, multiVars, handlerVars, pureVars>>

\* handle: T::process(req, state), then res.encode(stream)
ServeRespond ==
    /\ srv.pc = "Dispatch"
    /\ \E code \in HandlerStatuses(srv.cur.cmd) :
        s2c' = s2c \o EncodeResponse(ResponseOf(code, srv.cur.cmd, srv.cur.k),
                                     ResponsePayload(srv.cur.cmd), srv.cur.k)
    /\ srv' = [srv EXCEPT !.pc = "AwaitVersion", !.writes = @ + 1,
                          !.cur = NoRequest]
    /\ UNCHANGED <<c2s, cli>>
    /\ UNCHANGED <<exchVars, srvVars, multiVars, handlerVars, pureVars>>

\* handle: process panics (an unwrap of a repository read in Who and in
\* GetAllIndexes) or res.encode(stream) fails and is unwrapped
ServePanic ==
    /\ srv.pc = "Dispatch"
    /\ srv' = [srv EXCEPT !.pc = "Panicked"]
    /\ UNCHANGED <<c2s, s2c, cli>>
    /\ UNCHANGED <<exchVars, srvVars, multiVars, handlerVars, pureVars>>

WireNext ==
    \/ ClientSend
    \/ ClientRecv
    \/ ServeDecode
    \/ ServeRespond
    \/ ServePanic

\* A connection just opened; no exchange is run
WireInit == ServerInit

WireSpec == WireInit /\ [][WireNext]_vars

\* --------------------------------------------- a response from any peer

\* The bytes of the status codes, high and low
StatusBytes == {0, 1, 144, 148, 200, 244}

\* What a peer that is not this server may write: status bytes, a message,
\* a payload of a response type
WireItems ==
    {U8(b) : b \in StatusBytes}
        \cup {Encoded("String", 0)}
        \cup {Encoded(ResponsePayload(X), 0) : X \in {"Who", "GetUsers"}}

\* A client with one request sent, either to this server, which has the
\* request in hand, or to a peer that has written what it likes
CodecInit ==
    /\ Parked /\ Listening /\ node = NoNode /\ NoHandler /\ PureIdle
    /\ c2s = <<>>
    /\ \E X \in Commands :
        /\ cli = [pc |-> "Open", sent |-> <<X>>, got |-> <<>>]
        /\ \/ /\ s2c = <<>>
              /\ srv = [pc |-> "Dispatch", cur |-> [cmd |-> X, k |-> 1],
                        reads |-> 1, writes |-> 0]
           \/ /\ s2c \in SeqsUpTo(WireItems, MaxWire)
              /\ srv = [pc |-> "AwaitVersion", cur |-> NoRequest,
                        reads |-> 0, writes |-> 0]

CodecNext ==
    \/ ServeRespond
    \/ ClientRecv

CodecSpec == CodecInit /\ [][CodecNext]_vars

\* ------------------------------------------------------- a node's handlers

\* A post held by the post repository
PostA == [author |-> KeyA, signature |-> Sign(KeyA, <<112>>)]

\* A stored content whose signature is somebody else's
ContentForged ==
    [ContentOf(TitleA) EXCEPT
        !.signature = Sign(KeyX, ContentOf(TitleA).signature.msg)]

\* The states of a serving node: repositories as an honest node holds them,
\* with or without a content record that does not verify
ServerStates ==
    {[private_key |-> st.private_key, users |-> st.users,
      indexes |-> st.indexes, contents |-> st.contents \cup f, posts |-> p] :
        st \in PeerStates, p \in SUBSET {PostA}, f \in SUBSET {ContentForged}}

\* A tag that is not a catalog's
OtherTAG == <<110>>

\* The request payloads a client sends
WhoRequests == {[request_address |-> a] : a \in HostAddresses}
GetUsersRequests ==
    {[pub_keys |-> s] : s \in {<<>>, <<KeyA>>, <<KeyX>>, <<KeyX, KeyA>>}}
GetAllIndexesRequests == {[tag |-> t] : t \in {MangaTAG, OtherTAG}}
ExchangeContentRequests == {[count |-> c] : c \in {0, 1, ExchangeCount}}
Pairs ==
    {<<MangaTAG, HashOf(TitleA)>>, <<MangaTAG, HashOf(TitleB)>>,
     <<OtherTAG, HashOf(TitleA)>>}
GetIndexesRequests == {[indexes |-> s] : s \in SeqsUpTo(Pairs, MaxPairs)}

\* Result<T, DatabaseError>
DbOk(v) == [ok |-> TRUE, value |-> v]
DbErr == [ok |-> FALSE]

\* Every ordering of a set of records
Orderings(S) ==
    {s \in [1..Cardinality(S) -> S] :
        \A a, b \in 1..Cardinality(S) : a # b => s[a] # s[b]}

\* Repositories::get_random_contents: the query gives its rows or fails
GetRandomContents(st, count) ==
    {DbOk(s) : s \in RandomContents(st.contents, count)} \cup {DbErr}

\* An ExchangeContent handler that returns the rows that verify
ExchangeContentRespondVerified(r) ==
    IF r.ok
    THEN ResponseOk([contents |->
            SelectSeq(r.value, LAMBDA c : ContentVerify(c))])
    ELSE ResponseInternalError

\* ExchangeContent::process on the result of get_random_contents
ExchangeContentRespond(r) ==
    IF r.ok THEN ResponseOk([contents |-> r.value]) ELSE ResponseInternalError

\* UserRepository::get_users: SELECT * FROM $ids, the stored records of the
\* keys asked for
RECURSIVE SelectUsers(_, _)
SelectUsers(repo, pub_keys) ==
    IF pub_keys = <<>> THEN <<>>
    ELSE LET u == GetUser(repo, Head(pub_keys))
         IN  (IF u.some THEN <<u.value>> ELSE <<>>)
                 \o SelectUsers(repo, Tail(pub_keys))

GetUsers(st, pub_keys) == {DbOk(SelectUsers(st.users, pub_keys)), DbErr}

\* GetUsers::process on the result of get_users
GetUsersRespond(r) ==
    IF r.ok
    THEN ResponseOk([users |-> [j \in 1..Len(r.value) |->
                                    UserResponseFrom(r.value[j])]])
    ELSE ResponseInternalError

\* IndexRepository::get_indexes: the rows of the catalog's table; a failed
\* select is unwrapped
GetIndexes(st) == {DbOk(s) : s \in Orderings(st.indexes)} \cup {DbErr}

\* A reply: the response process returned, or the panic that ended it
Response(res) == [kind |-> "Response", res |-> res]
Panicked == [kind |-> "Panicked"]
Running == [kind |-> "Running"]

\* A GetAllIndexes handler that answers any tag with the catalog
GetAllIndexesAnyTag(req, r) ==
    IF ~r.ok THEN Panicked
    ELSE Response(ResponseOk([indexes |-> r.value]))

\* GetAllIndexes::process on the result of get_indexes
GetAllIndexesProcess(req, r) ==
    IF req.tag = MangaTAG
    THEN IF ~r.ok THEN Panicked
         ELSE Response(ResponseOk([indexes |-> r.value]))
    ELSE Response(ResponseInvalidArgument)

\* UserRepository::get_user of the node's own key: the select gives the
\* record, or nothing, or fails and is unwrapped
GetOwnUser(st) == {DbOk(GetUser(st.users, PublicKeyOf(st.private_key))), DbErr}

\* A Who handler that signs with somebody else's key
WhoReplyOtherKey(req, st, r, now) ==
    IF ~r.ok THEN Panicked
    ELSE IF r.value.some
    THEN Response(ResponseOk(WhoResponseNewSigned(
                r.value.value, req.request_address, KeyX, now)))
    ELSE Response(ResponseNotFound)

\* Who::process on the result of get_user
WhoReply(req, st, r, now) ==
    IF ~r.ok THEN Panicked ELSE Response(WhoProcess(req, st, now))

\* The repository and configuration calls each handler makes
RepositoryCallsWriting(cmd) == <<"config.read", "get_user", "upsert_user">>

RepositoryCalls(cmd) ==
    IF cmd = "Who" THEN <<"config.read", "get_user">>
    ELSE IF cmd = "GetUsers" THEN <<"get_users">>
    ELSE IF cmd = "GetAllIndexes" THEN <<"get_indexes">>
    ELSE IF cmd = "ExchangeContent" THEN <<"get_random_contents">>
    ELSE <<"get_index">>

\* What a call does to the node: the upserts write, the selects and the
\* read lock of the configuration leave it as it is
Effect(st, name) ==
    IF name = "upsert_user" THEN [st EXCEPT !.users = UpsertUser(@, UserA)]
    ELSE IF name = "add_index" THEN [st EXCEPT !.indexes = AddIndex(@, IndexA)]
    ELSE IF name = "add_content"
    THEN [st EXCEPT !.contents = AddContent(@, ContentOf(TitleA))]
    ELSE IF name = "add_comment" THEN [st EXCEPT !.posts = @ \cup {PostA}]
    ELSE st

RECURSIVE Effects(_, _)
Effects(st, names) ==
    IF names = <<>> THEN st ELSE Effects(Effect(st, Head(names)), Tail(names))

\* The node after a handler's calls
After(st, cmd) == Effects(st, RepositoryCalls(cmd))

\* No handler is at work
Free == reply.kind # "Running"

HandleWho ==
    /\ Free
    /\ \E req \in WhoRequests, now \in {1, 2}, r \in GetOwnUser(node) :
        /\ call' = [cmd |-> "Who", req |-> req, fault |-> ~r.ok, now |-> now]
        /\ reply' = WhoReply(req, node, r, now)
    /\ node' = After(node, "Who")
    /\ lookups' = <<>> /\ completed' = <<>>
    /\ UNCHANGED <<exchVars, srvVars, multiVars, wireVars, pureVars>>

HandleGetUsers ==
    /\ Free
    /\ \E req \in GetUsersRequests : \E r \in GetUsers(node, req.pub_keys) :
        /\ call' = [cmd |-> "GetUsers", req |-> req, fault |-> ~r.ok, now |-> 0]
        /\ reply' = Response(GetUsersRespond(r))
    /\ node' = After(node, "GetUsers")
    /\ lookups' = <<>> /\ completed' = <<>>
    /\ UNCHANGED <<exchVars, srvVars, multiVars, wireVars, pureVars>>

HandleGetAllIndexes ==
    /\ Free
    /\ \E req \in GetAllIndexesRequests, r \in GetIndexes(node) :
        /\ call' = [cmd |-> "GetAllIndexes", req |-> req,
                    fault |-> req.tag = MangaTAG /\ ~r.ok, now |-> 0]
        /\ reply' = GetAllIndexesProcess(req, r)
    /\ node' = After(node, "GetAllIndexes")
    /\ lookups' = <<>> /\ completed' = <<>>
    /\ UNCHANGED <<exchVars, srvVars, multiVars, wireVars, pureVars>>

HandleExchangeContent ==
    /\ Free
    /\ \E req \in ExchangeContentRequests :
       \E r \in GetRandomContents(node, req.count) :
        /\ call' = [cmd |-> "ExchangeContent", req |-> req, fault |-> ~r.ok,
                    now |-> 0]
        /\ reply' = Response(ExchangeContentRespond(r))
    /\ node' = After(node, "ExchangeContent")
    /\ lookups' = <<>> /\ completed' = <<>>
    /\ UNCHANGED <<exchVars, srvVars, multiVars, wireVars, pureVars>>

\* A lookup that has been spawned and has not finished
Pending == [state |-> "Pending", value |-> None, fault |-> FALSE]

\* GetIndexes::process: one lookup is spawned per pair of the request
GetIndexesSpawn ==
    /\ Free
    /\ \E req \in GetIndexesRequests :
        /\ call' = [cmd |-> "GetIndexes", req |-> req, fault |-> FALSE,
                    now |-> 0]
        /\ lookups' = [j \in 1..Len(req.indexes) |-> Pending]
    /\ reply' = Running
    /\ completed' = <<>>
    /\ node' = node
    /\ UNCHANGED <<exchVars, srvVars, multiVars, wireVars, pureVars>>

\* What a spawned lookup comes to: None for a tag that is not the catalog's,
\* else get_index's Ok(Some), Ok(None), or Err taken as None
LookupOutcomes(pair, st) ==
    IF pair[1] = MangaTAG
    THEN {[state |-> "Done", value |-> GetIndex(st.indexes, pair[2]),
           fault |-> FALSE],
          [state |-> "Done", value |-> None, fault |-> TRUE]}
    ELSE {[state |-> "Done", value |-> None, fault |-> FALSE]}

\* A spawned lookup finishes; the lookups finish in any order
LookupComplete ==
    /\ reply.kind = "Running"
    /\ \E j \in 1..Len(lookups) :
        /\ lookups[j].state = "Pending"
        /\ \E o \in LookupOutcomes(call.req.indexes[j], node) :
            lookups' = [lookups EXCEPT ![j] = o]
        /\ completed' = Append(completed, j)
    /\ node' = After(node, "GetIndexes")
    /\ UNCHANGED <<call, reply>>
    /\ UNCHANGED <<exchVars, srvVars, multiVars, wireVars, pureVars>>

\* The values of the finished lookups that found an index, in the order of
\* the given positions
RECURSIVE Found(_, _)
Found(ls, order) ==
    IF order = <<>> THEN <<>>
    ELSE (IF ls[Head(order)].value.some
          THEN <<ls[Head(order)].value.value>> ELSE <<>>)
            \o Found(ls, Tail(order))

\* A join that takes the lookups as they finished
JoinedAsCompleted(ls, order) == Found(ls, order)

\* for handle in handles { handle.await }: the handles are awaited in the
\* order they were spawned in, which is the order of the request
Joined(ls, order) == Found(ls, [j \in 1..Len(ls) |-> j])

\* GetIndexes::process: every handle has been awaited; the response is built
GetIndexesJoin ==
    /\ reply.kind = "Running"
    /\ \A j \in 1..Len(lookups) : lookups[j].state = "Done"
    /\ reply' = Response(ResponseOk([indexes |-> Joined(lookups, completed)]))
    /\ node' = node
    /\ UNCHANGED <<call, lookups, completed>>
    /\ UNCHANGED <<exchVars, srvVars, multiVars, wireVars, pureVars>>

HandlerNext ==
    \/ HandleWho
    \/ HandleGetUsers
    \/ HandleGetAllIndexes
    \/ HandleExchangeContent
    \/ GetIndexesSpawn
    \/ LookupComplete
    \/ GetIndexesJoin

\* A serving node with its repositories as it holds them, no command yet
HandlerInit ==
    /\ Parked /\ Listening /\ WireOpen /\ PureIdle
    /\ node \in ServerStates
    /\ NoHandler

HandlerSpec == HandlerInit /\ [][HandlerNext]_vars

\* ----------------------------------------------------------- the wire codec

\* [u8; N]: the arrays of a Hash, a PublicKey and a Signature
TArray(n) == [k |-> "array", n |-> n]
TUnit == [k |-> "unit"]
TU16 == [k |-> "u16"]
\* u32, u64, i32 and f32: the value is held as its w big-endian bytes
TWide(w) == [k |-> "wide", w |-> w]
TBool == [k |-> "bool"]
TString == [k |-> "String"]
TVec(T) == [k |-> "Vec", of |-> T]
TOption(T) == [k |-> "Option", of |-> T]
TResult(T, E) == [k |-> "Result", t |-> T, e |-> E]
TPair(T, U) == [k |-> "struct", name |-> "(T, U)", fields |-> <<T, U>>]
\* #[derive(Byteable)] on a struct: the fields in the order declared
TStruct(name, fields) == [k |-> "struct", name |-> name, fields |-> fields]
\* #[derive(Byteable)] on an enum without data: its discriminants
TEnum(name, variants) == [k |-> "enum", name |-> name, variants |-> variants]
TContentEntry(C) == [k |-> "ContentEntry", content |-> C]
TStatus == [k |-> "AuroraStatus"]
TResponse(P) == [k |-> "AuroraProtocolResponse", of |-> P]
\* TaggedIndex and TaggedContent: the tag as a String, then the record
TTagged(name, tag, T) == [k |-> "tagged", name |-> name, tag |-> tag, of |-> T]

\* AsyncWriteExt::write on a sink that takes at most accept bytes in one call
\* (0: as many as it is given); the call returns Ok either way
Write(buf, accept) ==
    IF accept = 0 \/ Len(buf) <= accept THEN buf ELSE SubSeq(buf, 1, accept)

\* AsyncWriteExt::write_all
WriteAll(buf, accept) == buf

NoEncodeError == [kind |-> "None", allowed |-> 0, actual |-> 0]
TooManyElements(allowed, actual) ==
    [kind |-> "TooManyElements", allowed |-> allowed, actual |-> actual]

\* What an encode came to: Ok(()) or the error, and the bytes the sink got
Written(bytes) == [ok |-> TRUE, bytes |-> bytes, err |-> NoEncodeError]
EncodeFailed(err) == [ok |-> FALSE, bytes |-> <<>>, err |-> err]

\* a.encode(writer).await?; b.encode(writer).await
Then(a, b) ==
    IF ~a.ok THEN a ELSE [ok |-> b.ok, bytes |-> a.bytes \o b.bytes, err |-> b.err]

\* A length check that lets u16::MAX + 1 elements through
TooLongOffByOne(len) == len > U16_MAX + 1
\* The length check of String::encode and Vec::encode
TooLong(len) == len > U16_MAX

\* self.len() as u16
AsU16(n) == n % 65536

\* u16::to_string, as the bytes of the decimal digits
RECURSIVE to_string(_)
to_string(n) ==
    IF n < 10 THEN <<48 + n>> ELSE to_string(n \div 10) \o <<48 + (n % 10)>>

\* str::from_utf8 accepts the bytes: every byte is ASCII, the lead of a
\* sequence that is followed by its continuation bytes, or a continuation
\* byte of such a sequence (overlong forms and surrogates are not told apart)
Continuation(b) == b >= 128 /\ b <= 191
SequenceLen(b) ==
    IF b < 128 THEN 1
    ELSE IF b >= 194 /\ b <= 223 THEN 2
    ELSE IF b >= 224 /\ b <= 239 THEN 3
    ELSE IF b >= 240 /\ b <= 244 THEN 4
    ELSE 0
StartsSequence(s, j) ==
    /\ SequenceLen(s[j]) >= 1
    /\ j + SequenceLen(s[j]) - 1 <= Len(s)
    /\ \A d \in 1..(SequenceLen(s[j]) - 1) : Continuation(s[j + d])
IsUtf8(s) ==
    \A j \in 1..Len(s) :
        \/ StartsSequence(s, j)
        \/ /\ Continuation(s[j])
           /\ \E d \in 1..3 :
                /\ j - d >= 1
                /\ SequenceLen(s[j - d]) > d
                /\ StartsSequence(s, j - d)
                /\ \A e \in 1..(d - 1) : Continuation(s[j - e])

IoError == [kind |-> "IoError", variant_value |-> <<>>, enum_name |-> ""]
FromUtf8Error == [kind |-> "FromUtf8Error", variant_value |-> <<>>, enum_name |-> ""]
InvalidEnumVariant(value, name) ==
    [kind |-> "InvalidEnumVariant", variant_value |-> value, enum_name |-> name]

\* What a decode came to: Ok(value) and the bytes left unread, or the error
DecodeOk(value, rest) == [ok |-> TRUE, value |-> value, rest |-> rest]
DecodeErr(err) == [ok |-> FALSE, err |-> err]

Drop(s, n) == SubSeq(s, n + 1, Len(s))

\* AuroraStatus as a value: the code, and the message of an error
StatusValue(code, message) == [code |-> code, message |-> message]
StatusCodes == {StatusOk, StatusInvalidArgument, StatusNotFound, StatusInternalError}

\* f32 0.0
ZeroF32 == <<0, 0, 0, 0>>

\* A ContentEntry as it is after a decode: progress: 0.0
EntryValue(title, enumeration, path, content, progress) ==
    [title |-> title, enumeration |-> enumeration, path |-> path,
     content |-> content, progress |-> progress]

\* A match that takes every byte for a variant
IsVariantAlways(T, b) == TRUE
\* The match arms of a derived decode: the discriminants of the variants
IsVariant(T, b) == b \in T.variants

RECURSIVE Encode(_, _, _)
RECURSIVE EncodeSeq(_, _, _)
RECURSIVE Decode(_, _)
RECURSIVE DecodeSeq(_, _)

\* Byteable::encode of a value x of type T
Encode(T, x, accept) ==
    CASE T.k = "unit" -> Written(<<>>)
      [] T.k = "u16" -> Written(WriteAll(BeBytes(x, 2), accept))
      [] T.k = "wide" -> Written(WriteAll(x, accept))
      [] T.k = "bool" -> Written(<<IF x THEN 1 ELSE 0>>)
      [] T.k = "String" ->
            IF TooLong(Len(x)) THEN EncodeFailed(TooManyElements(U16_MAX, Len(x)))
            ELSE Written(BeBytes(AsU16(Len(x)), 2) \o Write(x, accept))
      [] T.k = "Vec" ->
            IF TooLong(Len(x)) THEN EncodeFailed(TooManyElements(U16_MAX, Len(x)))
            ELSE Then(Written(BeBytes(AsU16(Len(x)), 2)),
                      EncodeSeq([j \in 1..Len(x) |-> T.of], x, accept))
      [] T.k = "Option" ->
            IF x.some THEN Then(Written(<<1>>), Encode(T.of, x.value, accept))
            ELSE Written(<<0>>)
      [] T.k = "Result" ->
            IF x.ok THEN Then(Written(<<0>>), Encode(T.t, x.value, accept))
            ELSE Then(Written(<<1>>), Encode(T.e, x.value, accept))
      [] T.k = "array" -> Written(Write(x, accept))
      [] T.k = "enum" -> Written(<<x % 256>>)
      [] T.k = "struct" -> EncodeSeq(T.fields, x, accept)
      [] T.k = "ContentEntry" ->
            EncodeSeq(<<TString, TWide(4), TString, T.content>>,
                      <<x.title, x.enumeration, x.path, x.content>>, accept)
      [] T.k = "AuroraStatus" ->
            IF x.code = StatusOk THEN Written(BeBytes(x.code, 2))
            ELSE Then(Written(BeBytes(x.code, 2)), Encode(TString, x.message, accept))
      [] T.k = "AuroraProtocolResponse" ->
            IF x.payload.some
            THEN Then(Encode(TStatus, x.status, accept),
                      Encode(T.of, x.payload.value, accept))
            ELSE Encode(TStatus, x.status, accept)
      [] T.k = "tagged" ->
            Then(Encode(TString, T.tag, accept), Encode(T.of, x.value, accept))

\* The values xs of the types Ts, one after the other, up to the first error
EncodeSeq(Ts, xs, accept) ==
    IF Len(Ts) = 0 THEN Written(<<>>)
    ELSE IF Len(Ts) = 1 THEN Encode(Ts[1], xs[1], accept)
    ELSE LET h == Len(Ts) \div 2
         IN  Then(EncodeSeq(SubSeq(Ts, 1, h), SubSeq(xs, 1, h), accept),
                  EncodeSeq(Drop(Ts, h), Drop(xs, h), accept))

\* Byteable::decode of a value of type T from the front of bytes
Decode(T, bytes) ==
    CASE T.k = "unit" -> DecodeOk(<<>>, bytes)
      [] T.k = "u16" ->
            IF Len(bytes) < 2 THEN DecodeErr(IoError)
            ELSE DecodeOk(bytes[1] * 256 + bytes[2], Drop(bytes, 2))
      [] T.k = "wide" ->
            IF Len(bytes) < T.w THEN DecodeErr(IoError)
            ELSE DecodeOk(SubSeq(bytes, 1, T.w), Drop(bytes, T.w))
      [] T.k = "bool" ->
            IF Len(bytes) < 1 THEN DecodeErr(IoError)
            ELSE DecodeOk(bytes[1] # 0, Drop(bytes, 1))
      [] T.k = "String" ->
            LET len == Decode(TU16, bytes)
            IN  IF ~len.ok THEN len
                ELSE IF Len(len.rest) < len.value THEN DecodeErr(IoError)
                ELSE IF ~IsUtf8(SubSeq(len.rest, 1, len.value))
                     THEN DecodeErr(FromUtf8Error)
                ELSE DecodeOk(SubSeq(len.rest, 1, len.value),
                              Drop(len.rest, len.value))
      [] T.k = "Vec" ->
            LET len == Decode(TU16, bytes)
            IN  IF ~len.ok THEN len
                ELSE DecodeSeq([j \in 1..len.value |-> T.of], len.rest)
      [] T.k = "Option" ->
            IF Len(bytes) < 1 THEN DecodeErr(IoError)
            ELSE IF bytes[1] = 0 THEN DecodeOk(None, Drop(bytes, 1))
            ELSE LET v == Decode(T.of, Drop(bytes, 1))
                 IN  IF ~v.ok THEN v ELSE DecodeOk(Some(v.value), v.rest)
      [] T.k = "Result" ->
            IF Len(bytes) < 1 THEN DecodeErr(IoError)
            ELSE LET v == Decode(IF bytes[1] = 0 THEN T.t ELSE T.e, Drop(bytes, 1))
                 IN  IF ~v.ok THEN v
                     ELSE DecodeOk([ok |-> bytes[1] = 0, value |-> v.value], v.rest)
      [] T.k = "array" ->
            IF Len(bytes) < T.n THEN DecodeErr(IoError)
            ELSE DecodeOk(SubSeq(bytes, 1, T.n), Drop(bytes, T.n))
      [] T.k = "enum" ->
            IF Len(bytes) < 1 THEN DecodeErr(IoError)
            ELSE IF IsVariant(T, bytes[1]) THEN DecodeOk(bytes[1], Drop(bytes, 1))
            ELSE DecodeErr(InvalidEnumVariant(to_string(bytes[1]), T.name))
      [] T.k = "struct" -> DecodeSeq(T.fields, bytes)
      [] T.k = "ContentEntry" ->
            LET v == DecodeSeq(<<TString, TWide(4), TString, T.content>>, bytes)
            IN  IF ~v.ok THEN v
                ELSE DecodeOk(EntryValue(v.value[1], v.value[2], v.value[3],
                                         v.value[4], ZeroF32), v.rest)
      [] T.k = "AuroraStatus" ->
            LET code == Decode(TU16, bytes)
            IN  IF ~code.ok THEN code
                ELSE IF code.value = StatusOk
                     THEN DecodeOk(StatusValue(StatusOk, <<>>), code.rest)
                ELSE IF code.value \in StatusCodes
                     THEN LET message == Decode(TString, code.rest)
                          IN  IF ~message.ok THEN message
                              ELSE DecodeOk(StatusValue(code.value, message.value),
                                            message.rest)
                ELSE DecodeErr(InvalidEnumVariant(to_string(code.value), "AuroraStatus"))
      [] T.k = "AuroraProtocolResponse" ->
            LET status == Decode(TStatus, bytes)
            IN  IF ~status.ok THEN status
                ELSE IF status.value.code # StatusOk
                     THEN DecodeOk([status |-> status.value, payload |-> None],
                                   status.rest)
                ELSE LET response == Decode(T.of, status.rest)
                     IN  IF ~response.ok THEN response
                         ELSE DecodeOk([status |-> status.value,
                                        payload |-> Some(response.value)],
                                       response.rest)
      [] T.k = "tagged" ->
            LET tag == Decode(TString, bytes)
            IN  IF ~tag.ok THEN tag
                ELSE IF tag.value = T.tag
                     THEN LET v == Decode(T.of, tag.rest)
                          IN  IF ~v.ok THEN v
                              ELSE DecodeOk([value |-> v.value], v.rest)
                ELSE DecodeErr(InvalidEnumVariant(tag.value, T.name))

\* Values of the types Ts read one after the other; the first error ends it
DecodeSeq(Ts, bytes) ==
    IF Len(Ts) = 0 THEN DecodeOk(<<>>, bytes)
    ELSE IF Len(Ts) = 1
         THEN LET v == Decode(Ts[1], bytes)
              IN  IF ~v.ok THEN v ELSE DecodeOk(<<v.value>>, v.rest)
    ELSE LET h == Len(Ts) \div 2
             a == DecodeSeq(SubSeq(Ts, 1, h), bytes)
         IN  IF ~a.ok THEN a
             ELSE LET b == DecodeSeq(Drop(Ts, h), a.rest)
                  IN  IF ~b.ok THEN b ELSE DecodeOk(a.value \o b.value, b.rest)

\* The wire types of the protocol
THash == TStruct("Hash", <<TArray(ArrayLen)>>)
TPublicKey == TStruct("PublicKey", <<TArray(ArrayLen)>>)
TSignature == TStruct("Signature", <<TArray(ArrayLen)>>)
TLanguage == TEnum("Language", 0..4)
TVersion == TEnum("AuroraProtocolVersion", {VERSION})
TMangaChapter == TStruct("MangaChapter", <<TLanguage>>)
TMagnet == TStruct("Magnet", <<TString>>)
TI2PAddress == TStruct("I2PAddress", <<TString>>)
TIndex == TStruct("Index", <<THash, TString, TWide(4), TPublicKey, TSignature>>)
TContent ==
    TStruct("Content", <<TSignature, TPublicKey, THash, TWide(8), TMagnet,
                         TVec(TContentEntry(TMangaChapter))>>)
TTaggedIndex == TTagged("TaggedIndex", MangaTAG, TIndex)
TTaggedContent == TTagged("TaggedContent", MangaTAG, TContent)
TUserResponse ==
    TStruct("UserResponse", <<TPublicKey, TString, TSignature, TWide(8), TI2PAddress>>)
TExchangeContentRequest == TStruct("ExchangeContentRequest", <<TU16>>)
TGetIndexesRequest == TStruct("GetIndexesRequest", <<TVec(TPair(TString, THash))>>)

Repeat(b, n) == [j \in 1..n |-> b]

\* Values of the wire types
Strings == {<<>>, <<97>>, <<97, 98>>, <<195, 169>>}
LongStrings == {Repeat(97, U16_MAX), Repeat(97, U16_MAX + 1)}
Arrays == {Repeat(0, ArrayLen), [j \in 1..ArrayLen |-> j]}
Newtypes(xs) == {<<x>> : x \in xs}
Wides(w) == {BeBytes(0, w), BeBytes(1, w), Repeat(255, w)}
IndexValues ==
    {<<<<a>>, t, BeBytes(2001, 4), <<Repeat(0, ArrayLen)>>, <<Repeat(0, ArrayLen)>>>> :
        a \in Arrays, t \in {<<97>>, <<195, 169>>}}
EntryValues ==
    {EntryValue(<<97>>, BeBytes(1, 4), <<97, 98>>, <<l>>, p) :
        l \in {0, 4}, p \in {ZeroF32, <<63, 0, 0, 0>>}}
ContentValues ==
    {<<<<Repeat(0, ArrayLen)>>, <<Repeat(0, ArrayLen)>>, <<a>>, BeBytes(1, 8),
       <<<<97>>>>, es>> :
        a \in Arrays,
        es \in {<<>>} \cup {<<e>> : e \in EntryValues}}
UserResponseValues ==
    {<<<<a>>, n, <<Repeat(0, ArrayLen)>>, BeBytes(1, 8), <<<<97, 98>>>>>> :
        a \in Arrays, n \in {<<>>, <<97>>}}
StatusValues ==
    {StatusValue(StatusOk, <<>>)}
        \cup {StatusValue(c, m) : c \in ErrorStatuses, m \in {<<>>, <<97>>}}
ResponseValues(payloads) ==
    {[status |-> StatusValue(StatusOk, <<>>), payload |-> Some(p)] : p \in payloads}
        \cup {[status |-> StatusValue(c, <<97>>), payload |-> None] : c \in ErrorStatuses}

\* The elements of a set, one after the other
RECURSIVE SeqOf(_)
SeqOf(S) ==
    IF S = {} THEN <<>>
    ELSE LET x == CHOOSE y \in S : TRUE IN <<x>> \o SeqOf(S \ {x})

TypedSeq(T, s) == [j \in 1..Len(s) |-> [type |-> T, value |-> s[j]]]
Typed(T, xs) == TypedSeq(T, SeqOf(xs))

\* Values whose encoding is a few bytes long
SmallValues ==
    Typed(TUnit, {<<>>})
        \o Typed(TU16, {0, 1, 255, 256, U16_MAX})
        \o Typed(TWide(8), Wides(8))
        \o Typed(TWide(4), Wides(4))
        \o Typed(TBool, BOOLEAN)
        \o Typed(TString, Strings)
        \o Typed(TVec(TU16), {<<>>, <<1>>, <<1, 256>>})
        \o Typed(TVec(TString), {<<>>, <<<<97>>>>, <<<<97>>, <<97, 98>>>>})
        \o Typed(TVec(TUnit), {<<>>, <<<<>>, <<>>>>})
        \o TypedSeq(TOption(TU16), <<None, Some(1)>>)
        \o TypedSeq(TOption(TString), <<None, Some(<<97, 98>>)>>)
        \o TypedSeq(TResult(TU16, TString),
                      <<[ok |-> TRUE, value |-> 1], [ok |-> FALSE, value |-> <<97>>]>>)
        \o Typed(TPair(TString, THash), {<<MangaTAG, <<a>>>> : a \in Arrays})
        \o Typed(TArray(ArrayLen), Arrays)
        \o Typed(TLanguage, 0..4)
        \o Typed(TVersion, {VERSION})
        \o Typed(THash, Newtypes(Arrays))
        \o Typed(TMagnet, Newtypes(Strings))
        \o Typed(TStatus, StatusValues)
        \o Typed(TResponse(TU16), ResponseValues({1}))
        \o Typed(TResponse(TVec(TTaggedIndex)),
                   ResponseValues({<<>>} \cup {<<[value |-> x]>> : x \in IndexValues}))
        \o Typed(TIndex, IndexValues)
        \o Typed(TTaggedIndex, {[value |-> x] : x \in IndexValues})
        \o Typed(TContentEntry(TMangaChapter), EntryValues)
        \o Typed(TContent, ContentValues)
        \o Typed(TTaggedContent, {[value |-> x] : x \in ContentValues})
        \o Typed(TUserResponse, UserResponseValues)
        \o Typed(TExchangeContentRequest, {<<ExchangeCount>>})
        \o Typed(TGetIndexesRequest,
                   {<<ps>> : ps \in {<<>>} \cup {<<<<MangaTAG, <<a>>>>>> : a \in Arrays}})

\* Values at the limit of the length prefix, and one element past it
LongValues ==
    Typed(TVec(TUnit), {Repeat(<<>>, U16_MAX), Repeat(<<>>, U16_MAX + 1)})
        \o Typed(TString, LongStrings)
        \o Typed(TMagnet, Newtypes(LongStrings))

WireValues == SmallValues \o LongValues

\* The value being encoded
wval == IF pick = 0 THEN <<>> ELSE WireValues[pick].value

\* What a reader may find instead of an encoding e: the stream ends early, or
\* one byte of it is another byte
Prefixes(e) == [n \in 1..Len(e) |-> SubSeq(e, 1, n - 1)]
Changed(e, d) == [j \in 1..Len(e) |-> [e EXCEPT ![j] = (e[j] + d) % 256]]
Mangled(e) == Prefixes(e) \o Changed(e, 1) \o Changed(e, 255)
InputsOf(tv) ==
    LET bs == Mangled(Encode(tv.type, tv.value, 0).bytes)
    IN  [j \in 1..Len(bs) |-> [type |-> tv.type, bytes |-> bs[j]]]
Inputs == Flatten([j \in 1..Len(SmallValues) |-> InputsOf(SmallValues[j])])

\* A sink takes all it is given (0), or at most this many bytes in one write
Accepts == 0..MaxAccept

NotEncoded == [ok |-> FALSE, bytes |-> <<>>, err |-> NoEncodeError]
NotDecoded == DecodeErr([kind |-> "None", variant_value |-> <<>>, enum_name |-> ""])

\* A value about to be written to a sink
ValueStart ==
    \E j \in 1..Len(WireValues) :
        /\ bpc = "Value"
        /\ wtype = WireValues[j].type
        /\ pick = j
        /\ sink = <<>>
        /\ taken = 0
        /\ encoded = NotEncoded
        /\ decoded = NotDecoded
        /\ frames = 0

\* Bytes from a peer about to be read as a value of some type
InputStart ==
    \E j \in 1..Len(Inputs) :
        /\ bpc = "Input"
        /\ wtype = Inputs[j].type
        /\ pick = 0
        /\ sink = Inputs[j].bytes
        /\ taken = 0
        /\ encoded = NotEncoded
        /\ decoded = NotDecoded
        /\ frames = 0

\* value.encode(&mut sink)
EncodeValue ==
    /\ bpc = "Value"
    /\ \E a \in Accepts :
        /\ taken' = a
        /\ encoded' = Encode(wtype, wval, a)
        /\ sink' = Encode(wtype, wval, a).bytes
    /\ bpc' = "Encoded"
    /\ UNCHANGED <<wtype, pick, decoded, frames, made, opVars>>
    /\ UNCHANGED <<exchVars, srvVars, multiVars, wireVars, handlerVars>>

\* T::decode(&mut reader) on the bytes of a sink, or on those of a peer
DecodeSink ==
    /\ \/ bpc = "Encoded" /\ encoded.ok
       \/ bpc = "Input"
    /\ decoded' = Decode(wtype, sink)
    /\ frames' = IF Decode(wtype, sink).ok THEN frames + 1 ELSE frames
    /\ bpc' = "Decoded"
    /\ UNCHANGED <<wtype, pick, sink, taken, encoded, made, opVars>>
    /\ UNCHANGED <<exchVars, srvVars, multiVars, wireVars, handlerVars>>

\* The enums of handler!(V1, ...) and the request payload of each command
TCategory == TEnum("AuroraProtocolCommandCategoryV1", {0, 1})
TCommand(cat) ==
    IF cat = 0 THEN TEnum("UsersCommandV1", {0, 1})
    ELSE TEnum("IndexCommandV1", {0, 1, 2})
TWhoResponse == TStruct("WhoResponse", <<TUserResponse, TWide(8), TSignature>>)
TRequest(X) ==
    IF X = "GetUsers" THEN TStruct("GetUsersRequest", <<TVec(TPublicKey)>>)
    ELSE IF X = "Who" THEN TStruct("WhoRequest", <<TI2PAddress>>)
    ELSE IF X = "GetAllIndexes" THEN TStruct("GetAllIndexesRequest", <<TString>>)
    ELSE IF X = "ExchangeContent" THEN TExchangeContentRequest
    ELSE TGetIndexesRequest

\* What the task does after a decode of the request fails: the loop breaks
\* on the version, the unwraps in V1::handle and in handle panic
AfterDecodeErrorContinue(stage) == "Serving"
AfterDecodeError(stage) == IF stage = "version" THEN "Ended" ELSE "Panicked"

\* The client's request after the decode of the response fails: the error
\* is returned with ? and the stream is dropped with the operation
AfterResponseErrorContinue == "Requesting"
AfterResponseError == "Aborted"

\* One request read from the front of bytes: the version, the category, the
\* command and the payload of the command; at the first error, the stage
\* that failed and the bytes behind what the stages before it read
DecodeRequestFrame(bytes) ==
    LET version == Decode(TVersion, bytes)
    IN  IF ~version.ok THEN [ok |-> FALSE, stage |-> "version", d |-> version,
                             rest |-> bytes]
        ELSE LET cat == Decode(TCategory, version.rest)
        IN  IF ~cat.ok THEN [ok |-> FALSE, stage |-> "category", d |-> cat,
                             rest |-> version.rest]
        ELSE LET cmd == Decode(TCommand(cat.value), cat.rest)
        IN  IF ~cmd.ok THEN [ok |-> FALSE, stage |-> "command", d |-> cmd,
                             rest |-> cat.rest]
        ELSE LET req == Decode(TRequest(CommandOf(CategoryOf(cat.value).value,
                                                  cmd.value).value), cmd.rest)
        IN  IF ~req.ok THEN [ok |-> FALSE, stage |-> "payload", d |-> req,
                             rest |-> cmd.rest]
        ELSE [ok |-> TRUE, stage |-> "handle", d |-> req, rest |-> req.rest]

\* The requests a client writes on one stream, and what is read in their place
Frame(X, x) == <<VERSION, COMMAND_CATEGORY(X), COMMAND(X)>> \o Encode(TRequest(X), x, 0).bytes
RequestFrames ==
    <<Frame("ExchangeContent", <<ExchangeCount>>),
      Frame("GetIndexes", <<<<>>>>),
      Frame("GetIndexes", <<<<<<MangaTAG, <<Repeat(0, ArrayLen)>>>>>>>>),
      Frame("Who", <<<<<<97, 98>>>>>>),
      Frame("GetAllIndexes", <<MangaTAG>>),
      Frame("GetUsers", <<<<>>>>)>>
RequestStreams ==
    Flatten([j \in 1..Len(RequestFrames) |->
                <<RequestFrames[j] \o RequestFrames[1]>>
                    \o Mangled(RequestFrames[j] \o RequestFrames[1])])

\* The responses routine_exchange reads from one stream: to Who, to
\* ExchangeContent and to GetIndexes
ResponseTypes ==
    <<TResponse(TWhoResponse),
      TResponse(TStruct("ExchangeContentResponse", <<TVec(TTaggedContent)>>)),
      TResponse(TStruct("GetIndexesResponse", <<TVec(TTaggedIndex)>>))>>
OkResponse(p) == [status |-> StatusValue(StatusOk, <<>>), payload |-> Some(p)]
WhoResponseValue ==
    <<<<<<Repeat(0, ArrayLen)>>, <<97>>, <<Repeat(0, ArrayLen)>>, BeBytes(1, 8),
        <<<<97, 98>>>>>>, BeBytes(1, 8), <<Repeat(0, ArrayLen)>>>>
ResponseStreams ==
    LET w  == Encode(ResponseTypes[1], OkResponse(WhoResponseValue), 0).bytes
        ec == Encode(ResponseTypes[2], OkResponse(<<<<>>>>), 0).bytes
        nf == Encode(ResponseTypes[2],
                     [status |-> StatusValue(StatusNotFound, <<97>>),
                      payload |-> None], 0).bytes
        gi == Encode(ResponseTypes[3], OkResponse(<<<<>>>>), 0).bytes
    IN  <<w \o ec \o gi>> \o Mangled(w \o ec \o gi) \o Mangled(w \o nf \o gi)

\* A connection's task about to read what a peer wrote before closing
ServeStart ==
    \E j \in 1..Len(RequestStreams) :
        /\ bpc = "Serving"
        /\ wtype = TVersion
        /\ pick = 0
        /\ sink = RequestStreams[j]
        /\ taken = 0
        /\ encoded = NotEncoded
        /\ decoded = NotDecoded
        /\ frames = 0

\* A client about to read the responses to its requests
RequestStart ==
    \E j \in 1..Len(ResponseStreams) :
        /\ bpc = "Requesting"
        /\ wtype = ResponseTypes[1]
        /\ pick = 0
        /\ sink = ResponseStreams[j]
        /\ taken = 0
        /\ encoded = NotEncoded
        /\ decoded = NotDecoded
        /\ frames = 0

\* One turn of the task's loop: the version is decoded, V1::handle decodes
\* the category and the command, handle decodes the payload, processes it
\* and writes the response (or panics). A decode that fails has read some
\* of the bytes behind the stages before it.
ServeFrame ==
    /\ bpc = "Serving"
    /\ LET r == DecodeRequestFrame(sink)
       IN  /\ decoded' = r.d
           /\ IF r.ok
              THEN /\ bpc' \in {"Serving", "Panicked"}
                   /\ sink' = r.rest
                   /\ frames' = frames + 1
              ELSE /\ bpc' = AfterDecodeError(r.stage)
                   /\ \E n \in 0..Len(r.rest) : sink' = Drop(r.rest, n)
                   /\ frames' = frames
    /\ UNCHANGED <<wtype, pick, taken, encoded, made, opVars>>
    /\ UNCHANGED <<exchVars, srvVars, multiVars, wireVars, handlerVars>>

\* AuroraProtocolCommand::request, after the request is written: the
\* response to it is decoded, and the next request is that of the next step
ResponseFrame ==
    /\ bpc = "Requesting"
    /\ LET r == Decode(wtype, sink)
       IN  /\ decoded' = r
           /\ IF r.ok
              THEN /\ frames' = frames + 1
                   /\ sink' = r.rest
                   /\ IF frames + 1 < Len(ResponseTypes)
                      THEN bpc' = "Requesting" /\ wtype' = ResponseTypes[frames + 2]
                      ELSE bpc' = "Done" /\ wtype' = wtype
              ELSE /\ bpc' = AfterResponseError
                   /\ \E n \in 0..Len(sink) : sink' = Drop(sink, n)
                   /\ UNCHANGED <<frames, wtype>>
    /\ UNCHANGED <<pick, taken, encoded, made, opVars>>
    /\ UNCHANGED <<exchVars, srvVars, multiVars, wireVars, handlerVars>>

ByteNext == EncodeValue \/ DecodeSink \/ ServeFrame \/ ResponseFrame

ByteInit ==
    /\ Parked
    /\ Listening /\ WireOpen /\ node = NoNode /\ NoHandler
    /\ made = NoRecord /\ OpIdle
    /\ (ValueStart \/ InputStart \/ ServeStart \/ RequestStart)

ByteSpec == ByteInit /\ [][ByteNext]_vars

\* ------------------------------------------------ signed records being made

\* Titles as typed: "My T" and "myt" sanitize to the same string
RecTitles == {TitleA, <<109, 121, 116>>, TitleB, <<>>}
RecDates == {2024, 2025, -1}
RecKeys == {KeyA, KeyB}
RecStamps == {1, 2}

\* Entries of a chapter: EntryX and EntryY differ in title and in path, with
\* an enumeration whose four bytes are those of the letter moved across it
EntryX == [title |-> <<>>, enumeration |-> 1094795585, path |-> <<65>>, language |-> 1]
EntryY == [title |-> <<65>>, enumeration |-> 1094795585, path |-> <<>>, language |-> 1]
EntryZ == [title |-> <<99>>, enumeration |-> 1, path |-> <<112>>, language |-> 0]
EntryLists == {<<>>, <<EntryX>>, <<EntryY>>, <<EntryZ>>, <<EntryZ, EntryX>>}

\* The arguments of Index::new or Index::new_signed
IndexInputs ==
    [title : RecTitles, release_date : RecDates, priv : RecKeys,
     signed : BOOLEAN]

\* Index::new_signed, or Index::new with a signature handed in
MakeIndex(in) ==
    IF in.signed THEN IndexNewSigned(in.title, in.release_date, in.priv)
    ELSE IndexNew(in.title, in.release_date, PublicKeyOf(in.priv), SignatureEmpty)

\* The signed fields of each record, the field of its key, and the values a
\* field is given
SignedFields(of) ==
    IF of = "Index" THEN {"title", "release_date"}
    ELSE IF of = "Content" THEN {"index_hash", "timestamp", "magnet_link", "entries"}
    ELSE IF of = "User" THEN {"name", "timestamp", "address"}
    ELSE {"topic", "content", "timestamp"}
KeyField(of) == IF of = "User" THEN "pub_key" ELSE "source"
FieldValues(of, f) ==
    IF f = "title" THEN RecTitles
    ELSE IF f = "release_date" THEN RecDates
    ELSE IF f = "index_hash" THEN {HashOf(TitleA), HashOf(TitleB)}
    ELSE IF f = "timestamp" THEN RecStamps
    ELSE IF f = "magnet_link" THEN {<<109>>, <<109, 110>>}
    ELSE IF f = "entries" THEN EntryLists
    ELSE IF f = "name" THEN {<<>>, <<110>>}
    ELSE IF f = "address" THEN {AddrA, AddrB}
    ELSE IF f = "topic" THEN {HashOf(TitleA), HashOf(TitleB)}
    ELSE IF f = "content" THEN {<<>>, <<104>>, <<104, 105>>}
    ELSE RecKeys

\* The arguments of new_signed of the four records
SignedInputs ==
    [of : {"Index"}, title : RecTitles, release_date : RecDates, priv : RecKeys]
    \cup [of : {"Content"}, source : RecKeys, index_hash : FieldValues("Content", "index_hash"),
          timestamp : RecStamps, magnet_link : FieldValues("Content", "magnet_link"),
          entries : EntryLists, priv : RecKeys]
    \cup [of : {"User"}, name : FieldValues("User", "name"), timestamp : RecStamps,
          address : FieldValues("User", "address"), priv : RecKeys]
    \cup [of : {"Post"}, content : FieldValues("Post", "content"), timestamp : RecStamps,
          topic : FieldValues("Post", "topic"), priv : RecKeys]

\* new_signed of the record named
NewSigned(in) ==
    IF in.of = "Index" THEN IndexNewSigned(in.title, in.release_date, in.priv)
    ELSE IF in.of = "Content"
         THEN ContentNewSigned(PublicKeyOf(in.source), in.index_hash, in.timestamp,
                               in.magnet_link, in.entries, in.priv)
    ELSE IF in.of = "User"
         THEN UserNewSigned(in.name, in.timestamp, in.priv, in.address)
    ELSE PostNewSigned(in.content, in.timestamp, in.topic, in.priv)

\* verify of the record named
VerifyOf(of, r) ==
    IF of = "Index" THEN IndexVerify(r)
    ELSE IF of = "Content" THEN ContentVerify(r)
    ELSE IF of = "User" THEN UserVerify(r)
    ELSE PostVerify(r)

\* The bytes the signature of the record named is made over
SignedBytesOf(of, r) ==
    IF of = "Index" THEN IndexIdBytes(r.title, r.release_date)
    ELSE IF of = "Content"
         THEN ContentIdBytes(r.index_hash, r.timestamp, r.magnet_link, r.entries)
    ELSE IF of = "User" THEN UserVerificationBytes(r)
    ELSE PostSignBytes(r)

\* Two indexes about to be built
IndexStart ==
    \E a \in IndexInputs, b \in IndexInputs :
        made = [kind |-> "IndexInputs", a |-> a, b |-> b]

\* A record about to be built by new_signed
SignedStart ==
    \E in \in SignedInputs : made = [kind |-> "SignedInputs", in |-> in]

\* Index::new / Index::new_signed, twice
IndexMake ==
    /\ made.kind = "IndexInputs"
    /\ made' = [kind |-> "Indexes", a |-> MakeIndex(made.a), b |-> MakeIndex(made.b),
                priv |-> made.a.priv]
    /\ UNCHANGED <<exchVars, srvVars, multiVars, wireVars, handlerVars, byteVars, opVars>>

\* Index::sign on the first of the two
IndexSigning ==
    /\ made.kind = "Indexes"
    /\ made' = [kind |-> "IndexSigned", before |-> made.a,
                after |-> IndexSign(made.a, made.priv)]
    /\ UNCHANGED <<exchVars, srvVars, multiVars, wireVars, handlerVars, byteVars, opVars>>

\* new_signed
RecordMake ==
    /\ made.kind = "SignedInputs"
    /\ made' = [kind |-> "Signed", of |-> made.in.of, priv |-> made.in.priv,
                rec |-> NewSigned(made.in)]
    /\ UNCHANGED <<exchVars, srvVars, multiVars, wireVars, handlerVars, byteVars, opVars>>

\* One signed field, or the key, of a record that verifies is given another
\* value; the signature stays
RecordTamper ==
    /\ made.kind = "Signed"
    /\ VerifyOf(made.of, made.rec)
    /\ \E f \in SignedFields(made.of) \cup {KeyField(made.of)} :
        \E v \in FieldValues(made.of, f) :
            /\ v # made.rec[f]
            /\ made' = [kind |-> "Tampered", of |-> made.of, field |-> f,
                        rec |-> made.rec, now |-> [made.rec EXCEPT ![f] = v]]
    /\ UNCHANGED <<exchVars, srvVars, multiVars, wireVars, handlerVars, byteVars, opVars>>

\* A node that holds a user under any trust level puts it on the wire,
\* UserResponse::from(user), and the receiver takes it off, as_user()
UserToWire ==
    /\ made.kind \in {"Signed", "Tampered"}
    /\ made.of = "User"
    /\ \E t \in {TrustLevels[j] : j \in 1..Len(TrustLevels)} :
        LET held == SetTrust(IF made.kind = "Signed" THEN made.rec ELSE made.now, t)
        IN  made' = [kind |-> "Wired", of |-> "User", held |-> held,
                     wire |-> UserResponseFrom(held),
                     back |-> AsUser(UserResponseFrom(held))]
    /\ UNCHANGED <<exchVars, srvVars, multiVars, wireVars, handlerVars, byteVars, opVars>>

RecordNext ==
    \/ IndexMake
    \/ IndexSigning
    \/ RecordMake
    \/ RecordTamper
    \/ UserToWire

RecordInit ==
    /\ Parked
    /\ Listening /\ WireOpen /\ node = NoNode /\ NoHandler
    /\ ByteIdle /\ OpIdle
    /\ (IndexStart \/ SignedStart)

RecordSpec == RecordInit /\ [][RecordNext]_vars

\* ------------------------------------------------- the client's other calls

\* What a client call hands back: the Result, and the records of an Ok
Returned(res, value) == [result |-> res, value |-> value]

\* A get_all_indexes that keeps every index of the payload
KeepsIndexAlways(index) == TRUE

\* `if !index.verify() { continue }` of get_all_indexes
KeepsIndex(index) == IndexVerify(index)

\* `for index in payload.indexes`: the indexes that verify, in payload order
\* (MangaTag is the only tag, so T::TAG == MangaTag::TAG)
RECURSIVE CollectIndexes(_)
CollectIndexes(list) ==
    IF list = <<>> THEN <<>>
    ELSE LET index == IndexDecode(Head(list))
         IN  (IF KeepsIndex(index) THEN <<index>> ELSE <<>>)
                \o CollectIndexes(Tail(list))

\* get_all_indexes, after the response is decoded
GetAllIndexesReturns(res) ==
    IF res.status # StatusOk
    THEN Returned(UnexpectedResponseCode(res.status), <<>>)
    ELSE IF ~res.payload.some THEN Returned(Err("MissingPayload"), <<>>)
    ELSE Returned(Ok, CollectIndexes(res.payload.value.indexes))

\* who: who_internal on a stream of its own
WhoReturns(res, host) ==
    LET r == WhoInternal(res, host)
    IN  Returned(r.result, IF r.user.some THEN <<r.user.value>> ELSE <<>>)

\* `payload.users.into_iter().map(|u| u.as_user()).collect()`
RECURSIVE AsUsers(_)
AsUsers(list) ==
    IF list = <<>> THEN <<>>
    ELSE <<AsUser(Head(list))>> \o AsUsers(Tail(list))

\* request_users, after the response is decoded
RequestUsersReturns(res) ==
    IF res.status # StatusOk
    THEN Returned(UnexpectedResponseCode(res.status), <<>>)
    ELSE IF ~res.payload.some THEN Returned(Err("MissingPayload"), <<>>)
    ELSE Returned(Ok, AsUsers(res.payload.value.users))

\* The addresses a client dials
Dialed == {AddrA, AddrC}

\* The peer's user record as the peer may sign it: under any address
UserAt(address) == UserNewSigned(<<65>>, 1, KeyA, address)

\* The Who payloads of any peer: those of WhoUniverse, and a user record the
\* peer signed under another node's address, with a good freshness signature
WhoAnswers ==
    WhoUniverse
        \cup {WhoResponseNewSigned(UserAt(a), host, KeyA, 1) :
                a \in {AddrA, AddrC}, host \in HostAddresses}

\* The user records of any peer's GetUsers payload: signed, with the
\* signature removed, and renamed after signing
UserAnswers ==
    {UserResponseFrom(UserA),
     [UserResponseFrom(UserA) EXCEPT !.signature = SignatureEmpty],
     [UserResponseFrom(UserA) EXCEPT !.name = <<66>>]}

\* What any peer answers to a call
OpResponses(name) ==
    ErrorResponses \cup
        (IF name = "get_all_indexes"
         THEN {ResponseOk([indexes |-> l]) : l \in SeqsUpTo(IndexUniverse, MaxResp)}
         ELSE IF name = "who" THEN {ResponseOk(w) : w \in WhoAnswers}
         ELSE {ResponseOk([users |-> l]) : l \in SeqsUpTo(UserAnswers, MaxResp)})

\* What the call returns on a response
OpReturns(name, res, host) ==
    IF name = "get_all_indexes" THEN GetAllIndexesReturns(res)
    ELSE IF name = "who" THEN WhoReturns(res, host)
    ELSE RequestUsersReturns(res)

NoResponse == [status |-> 0, payload |-> None]

\* get_stream(url): the stream, or a YosemiteError
OpCall(name) ==
    /\ op = NoOp
    /\ \E url \in Dialed, host \in HostAddresses, connected \in BOOLEAN :
        op' = [name |-> name, url |-> url, host |-> host, res |-> NoResponse,
               at |-> IF connected THEN "Connected" ELSE "Returned",
               ret |-> IF connected THEN Returned(Err("none"), <<>>)
                       ELSE Returned(Err("YosemiteError"), <<>>)]
    /\ UNCHANGED <<exchVars, srvVars, multiVars, wireVars, handlerVars,
                   byteVars, made, cfgVars, waitVars, uiVars>>

\* X::request on the stream: an encode or a decode error, or the response
\* and what the call makes of it
OpAnswer(name) ==
    /\ op.name = name /\ op.at = "Connected"
    /\ \/ \E e \in {"EncodeError", "DecodeError"} :
            op' = [op EXCEPT !.at = "Returned", !.ret = Returned(Err(e), <<>>)]
       \/ \E res \in OpResponses(name) :
            op' = [op EXCEPT !.at = "Returned", !.res = res,
                             !.ret = OpReturns(name, res, op.host)]
    /\ UNCHANGED <<exchVars, srvVars, multiVars, wireVars, handlerVars,
                   byteVars, made, cfgVars, waitVars, uiVars>>

GetAllIndexesCall == OpCall("get_all_indexes")
GetAllIndexesAnswer == OpAnswer("get_all_indexes")
WhoCall == OpCall("who")
WhoAnswer == OpAnswer("who")
RequestUsersCall == OpCall("request_users")
RequestUsersAnswer == OpAnswer("request_users")

ClientNext ==
    \/ GetAllIndexesCall
    \/ GetAllIndexesAnswer
    \/ WhoCall
    \/ WhoAnswer
    \/ RequestUsersCall
    \/ RequestUsersAnswer

ClientInit == ServerInit

ClientSpec == ClientInit /\ [][ClientNext]_vars

\* ------------------------------------------- the configuration's lock

\* Config saves of one run
MaxSaves == 2

\* A lock that lets a writer in beside its readers
MayWriteAlways(lock) == TRUE

\* RwLock::read: granted while no writer holds the lock
MayRead(lock) == ~lock.writer

\* RwLock::write: granted while nobody holds the lock
MayWrite(lock) == ~lock.writer /\ lock.readers = {}

\* The user records a node holds of itself, one for each key it has had
OwnUsers == {UserNewSigned(<<65>>, 1, KeyA, AddrA), UserNewSigned(<<66>>, 1, KeyB, AddrA)}

\* The configurations the settings view saves
Configs == {ConfigOf(k, d) : k \in {KeyA, KeyB}, d \in BOOLEAN}

\* Who::process begins: `let config = state.config.read().await`
WhoRead(t) ==
    /\ whoTasks[t].at = "Idle"
    /\ MayRead(rwlock)
    /\ \E a \in HostAddresses :
        whoTasks' = [whoTasks EXCEPT ![t] = [NoWho EXCEPT !.at = "Reading",
                                                         !.request_address = a]]
    /\ rwlock' = [rwlock EXCEPT !.readers = @ \cup {t}]
    /\ UNCHANGED <<config, saving>>

\* get_user(config.public_key()).await under the guard: the user, None, or
\* a failed select, whose unwrap panics and drops the guard
WhoLookup(t) ==
    /\ whoTasks[t].at = "Reading"
    /\ \/ /\ whoTasks' = [whoTasks EXCEPT
                ![t].at = "Looked",
                ![t].user = GetUser(OwnUsers, config.public_key)]
          /\ UNCHANGED rwlock
       \/ /\ whoTasks' = [whoTasks EXCEPT ![t].at = "Panicked"]
          /\ rwlock' = [rwlock EXCEPT !.readers = @ \ {t}]
    /\ UNCHANGED <<config, saving>>

\* WhoResponse::new_signed(user, &req.request_address, config.private_key()),
\* the end of the block drops the guard, then the response is built
WhoSign(t) ==
    /\ whoTasks[t].at = "Looked"
    /\ \E now \in {1, 2} :
        whoTasks' = [whoTasks EXCEPT
            ![t].at = "Done",
            ![t].reply = Some(
                IF whoTasks[t].user.some
                THEN ResponseOk(WhoResponseNewSigned(whoTasks[t].user.value,
                        whoTasks[t].request_address, config.private_key, now))
                ELSE ResponseNotFound)]
    /\ rwlock' = [rwlock EXCEPT !.readers = @ \ {t}]
    /\ UNCHANGED <<config, saving>>

\* SaveConfig: config_to_save.save().await, whatever it returns
SaveStart ==
    /\ saving.at \in {"Idle", "Done"}
    /\ saving.saves < MaxSaves
    /\ \E c \in Configs :
        saving' = [at |-> "Saved", config_to_save |-> c, saves |-> saving.saves + 1]
    /\ UNCHANGED <<config, rwlock, whoTasks>>

\* `let mut config = server_config.write().await`
SaveLock ==
    /\ saving.at = "Saved"
    /\ MayWrite(rwlock)
    /\ saving' = [saving EXCEPT !.at = "Writing"]
    /\ rwlock' = [rwlock EXCEPT !.writer = TRUE]
    /\ UNCHANGED <<config, whoTasks>>

\* `*config = config_to_save.clone()`; the guard is dropped with the future
SaveWrite ==
    /\ saving.at = "Writing"
    /\ config' = saving.config_to_save
    /\ saving' = [saving EXCEPT !.at = "Done"]
    /\ rwlock' = [rwlock EXCEPT !.writer = FALSE]
    /\ UNCHANGED whoTasks

WhoReading == \E t \in WhoHandlers : WhoRead(t)
WhoLooking == \E t \in WhoHandlers : WhoLookup(t)
WhoSigning == \E t \in WhoHandlers : WhoSign(t)

LockNext ==
    /\ \/ WhoReading
       \/ WhoLooking
       \/ WhoSigning
       \/ SaveStart
       \/ SaveLock
       \/ SaveWrite
    /\ UNCHANGED <<exchVars, srvVars, multiVars, wireVars, handlerVars,
                   byteVars, made, op, waitVars, uiVars>>

LockInit == ServerInit

LockSpec == LockInit /\ [][LockNext]_vars

\* ------------------------------------------------------- a silent peer

\* A request whose read is wrapped in a timeout
TimesOutAlways(at) == TRUE

\* AuroraProtocolCommand::request: `AuroraProtocolResponse::decode(stream)
\* .await?` with nothing around it that ends the wait
TimesOut(at) == FALSE

\* routine_exchange stands at a round trip on the established stream
AtRoundTrip ==
    \/ pc \in {"who", "sample"}
    \/ pc = "diff" /\ i > Len(sample)

\* The peer stops answering; the stream stays open, so no transport error
\* arrives either
PeerStalls ==
    /\ AtRoundTrip
    /\ ~stalled
    /\ stalled' = TRUE
    /\ UNCHANGED <<exchVars, srvVars, multiVars, wireVars, handlerVars,
                   byteVars, made, op, cfgVars, elapsed, uiVars>>

\* Time passes while the read of the response is pending
TimePasses ==
    /\ stalled
    /\ ~elapsed
    /\ elapsed' = TRUE
    /\ IF AtRoundTrip /\ TimesOut(pc)
       THEN Finish(Err("Elapsed"))
       ELSE UNCHANGED <<pc, result>>
    /\ UNCHANGED <<run, faults, envVars, repoVars, loopVars, logVars, srvVars,
                   multiVars, wireVars, handlerVars, byteVars, made, op,
                   cfgVars, stalled, uiVars>>

\* The steps of routine_exchange; those that read a response need the peer
\* to answer or the transport to fail
StallNext ==
    \/ Connect
    \/ ~stalled /\ WhoStep
    \/ UpsertStep
    \/ ~stalled /\ SampleStep
    \/ DiffStep
    \/ ~stalled /\ GetIndexesStep
    \/ BackfillStep
    \/ CommitStep
    \/ ReturnOk
    \/ PeerStalls
    \/ TimePasses

StallInit == Init /\ ~peerHostile

StallSpec == StallInit /\ [][StallNext]_vars

\* ------------------------------------------------- the periodic exchange

\* Exchange messages of one run of the application
MaxTicks == 4

\* An Exchange handler that does not look at the flag
MayStartAlways(flag, ready) == ready

\* Message::Exchange: `if self.exchanging { return Task::none() }`, then the
\* client and the repositories must be there
MayStart(flag, ready) == ~flag /\ ready

\* What the future's get_random_user().await comes to: a user of another
\* key with an address or without one, the node's own user, Err on an empty
\* table, or a failed select, which the repository unwraps
Picks == {"other", "no address", "self", "Err", "panic"}

\* The futures that are running
Live == {k \in 1..Len(uiTasks) : uiTasks[k].at \in {"Picking", "Exchanging"}}

\* The client and the repositories are set up
UiInitialise ==
    /\ ~initialised
    /\ initialised' = TRUE
    /\ UNCHANGED <<exchanging, uiTasks, finishes, ticks>>

\* update(Message::Exchange), every 5000 ms
UiExchange ==
    /\ ticks < MaxTicks
    /\ ticks' = ticks + 1
    /\ IF MayStart(exchanging, initialised)
       THEN /\ exchanging' = TRUE
            /\ uiTasks' = Append(uiTasks, [at |-> "Picking", delivered |-> FALSE,
                                           connected |-> FALSE])
       ELSE UNCHANGED <<exchanging, uiTasks>>
    /\ UNCHANGED <<initialised, finishes>>

\* The future up to routine_exchange: get_random_user, the check against
\* the own key, the user's address
TaskPick ==
    \E k \in 1..Len(uiTasks), user \in Picks :
        /\ uiTasks[k].at = "Picking"
        /\ IF user = "other"
           THEN /\ uiTasks' = [uiTasks EXCEPT ![k].at = "Exchanging",
                                              ![k].connected = TRUE]
                /\ UNCHANGED finishes
           ELSE IF user = "panic"
           THEN /\ uiTasks' = [uiTasks EXCEPT ![k].at = "Panicked"]
                /\ UNCHANGED finishes
           ELSE /\ uiTasks' = [uiTasks EXCEPT ![k].at = "Returned",
                                              ![k].delivered = TRUE]
                /\ finishes' = finishes + 1
        /\ UNCHANGED <<exchanging, initialised, ticks>>

\* client.routine_exchange(address).await returns Ok or Err; the future
\* returns Message::FinishExchange
TaskExchange ==
    \E k \in 1..Len(uiTasks) :
        /\ uiTasks[k].at = "Exchanging"
        /\ uiTasks' = [uiTasks EXCEPT ![k].at = "Returned", ![k].delivered = TRUE]
        /\ finishes' = finishes + 1
        /\ UNCHANGED <<exchanging, initialised, ticks>>

\* update(Message::FinishExchange)
UiFinishExchange ==
    /\ finishes > 0
    /\ finishes' = finishes - 1
    /\ exchanging' = FALSE
    /\ UNCHANGED <<initialised, uiTasks, ticks>>

UiNext ==
    /\ \/ UiInitialise
       \/ UiExchange
       \/ TaskPick
       \/ TaskExchange
       \/ UiFinishExchange
    /\ UNCHANGED <<exchVars, srvVars, multiVars, wireVars, handlerVars,
                   byteVars, made, op, cfgVars, waitVars>>

UiInit == ServerInit

UiSpec == UiInit /\ [][UiNext]_vars

\* ------------------------------------------------------------------ claims

\* A returned index / a sampled content of this run, by position
ReturnedValid(h) ==
    \E j \in 1..Len(respIndexes) :
        respIndexes[j].hash = h /\ IndexVerify(respIndexes[j])
ReturnedInvalid(h) ==
    \E j \in 1..Len(respIndexes) :
        respIndexes[j].hash = h /\ ~IndexVerify(respIndexes[j])
KnownAtStart(h) == \E ix \in start.indexes : ix.hash = h
TransportErrors ==
    {"YosemiteError", "EncodeError", "DecodeError", "UnexpectedResponseCode",
     "MissingPayload"}

\* C1: every index and every content handed to add_index / add_content in a
\* run passes its own verify, and whatever the run added to the index and
\* content repositories is such a record.
C1_OnlyVerifiedPersisted ==
    /\ \A ix \in passedIndexes : IndexVerify(ix)
    /\ \A c \in passedContents : ContentVerify(c)
    /\ \A ix \in indexes \ start.indexes : ix \in passedIndexes
    /\ \A c \in contents \ start.contents : c \in passedContents

C1_Witness ==
    /\ peerHostile /\ pc = "done" /\ result = Ok
    /\ passedIndexes # {} /\ passedContents # {}
    /\ \E j \in 1..Len(respIndexes) : ~IndexVerify(respIndexes[j])
    /\ \E k \in 1..Len(sample) : ~ContentVerify(sample[k])

\* C2: a sampled content whose index_hash was not in the local index
\* repository at Diff, and for which GetIndexes returned no index of that
\* hash with a valid signature, is never handed to add_content, and no index
\* is stored under that hash, whether or not the content itself verifies.
C2_IndexGatesContent ==
    \A k \in 1..Len(sample) :
        LET h == sample[k].index_hash
        IN  (~KnownAtStart(h) /\ ~ReturnedValid(h)) =>
                /\ sample[k] \notin passedContents
                /\ sample[k] \notin contents
                /\ ~\E ix \in passedIndexes : ix.hash = h
                /\ ~GetIndex(indexes, h).some

C2_Witness ==
    /\ peerHostile /\ pc = "done" /\ result = Ok
    /\ \E k \in 1..Len(sample) :
        LET h == sample[k].index_hash
        IN  /\ ContentVerify(sample[k])
            /\ ~KnownAtStart(h) /\ ReturnedInvalid(h) /\ ~ReturnedValid(h)
            /\ sample[k] \notin contents

\* C3: every index the Backfill step accepts carries the hash of its own
\* title and release date, hash = digest(tag || sanitize(title) || date).
C3_AcceptedHashMatches ==
    \A ix \in passedIndexes :
        ix.hash = Digest(IndexIdBytes(ix.title, ix.release_date))

\* A sampled content that verifies and whose index is known: held when the
\* run began, or returned by GetIndexes with a valid signature
ValidAndKnown(c) ==
    /\ ContentVerify(c)
    /\ KnownAtStart(c.index_hash) \/ ReturnedValid(c.index_hash)
WhoSucceeded == who.some
Transported == result.err \notin TransportErrors

SecondRun ==
    /\ run > 1 /\ prev.some /\ prev.result = Ok
    /\ Len(sent) >= 2 /\ sample = prev.sample

Replicated ==
    \A ix \in peer.indexes, c \in peer.contents :
        (c.index_hash = ix.hash /\ IndexVerify(ix) /\ ContentVerify(c))
            => ix \in indexes /\ c \in contents
C6_Scenario ==
    /\ ~peerHostile /\ run = 1 /\ pc = "done" /\ result = Ok
    /\ start.indexes = {} /\ start.contents = {}
    /\ Cardinality(peer.contents) <= ExchangeCount

WhoFails ==
    /\ whoResp.some /\ whoResp.value.payload.some
    /\ \/ ~WhoResponseVerify(whoResp.value.payload.value, host_address)
       \/ ~UserVerify(AsUser(whoResp.value.payload.value.user))

C7_InvalidWhoAborts ==
    WhoFails =>
        /\ pc = "done" /\ result = Err("InvalidSignature")
        /\ sent = <<"Who">>
        /\ writes = NoWrites
        /\ users = start.users /\ indexes = start.indexes
        /\ contents = start.contents

C7_Witness ==
    /\ WhoFails /\ pc = "done"
    /\ WhoResponseVerify(whoResp.value.payload.value, host_address)

\* C8: a Who response signed for requester address X is rejected with
\* InvalidSignature by a requester whose host address differs from X; an
\* accepted response carries the signature of the user record's own key over
\* the timestamp and the verifying node's host address.
C8_WhoBoundToRequester ==
    (whoResp.some /\ whoResp.value.payload.some) =>
        LET w == whoResp.value.payload.value
        IN  /\ \A X \in HostAddresses, k \in {KeyA, KeyB, KeyX} :
                (X # host_address
                 /\ w.signature = Sign(k, WhoVerificationBytes(w.timestamp, X)))
                    => ~who.some /\ result = Err("InvalidSignature")
            /\ who.some =>
                /\ PublicKeyOf(w.signature.signer) = w.user.pub_key
                /\ w.signature.msg = LeBytes(w.timestamp, 8) \o host_address

C8_Witness ==
    /\ whoResp.some /\ whoResp.value.payload.some
    /\ \E X \in HostAddresses :
        /\ X # host_address
        /\ whoResp.value.payload.value.signature =
              Sign(whoResp.value.payload.value.user.pub_key,
                   WhoVerificationBytes(whoResp.value.payload.value.timestamp, X))
    /\ result = Err("InvalidSignature")

\* C9: a finished run returned Ok after all three commands, or an error that
\* names its cause and stopped the run where it arose: a connect failure
\* before any command, an encode or decode failure or a non-200 status
\* (carried in UnexpectedResponseCode) at the command being exchanged, with
\* no index or content write after it.
C9_ErrorsAbort ==
    pc = "done" =>
        \/ result = Ok /\ sent = <<"Who", "ExchangeContent", "GetIndexes">>
        \/ /\ result = Err("YosemiteError")
           /\ sent = <<>> /\ writes = NoWrites
        \/ /\ result \in {Err("EncodeError"), Err("DecodeError")}
           /\ writes.index = 0 /\ writes.content = 0
           /\ writes.user = (IF sent \in {<<>>, <<"Who">>} /\ who = None THEN 0 ELSE 1)
        \/ /\ result.err = "UnexpectedResponseCode"
           /\ result.status = lastStatus /\ lastStatus \in ErrorStatuses
           /\ writes.index = 0 /\ writes.content = 0
           /\ writes.user = (IF Len(sent) = 1 THEN 0 ELSE 1)
        \/ /\ result = Err("MissingPayload")
           /\ lastStatus = StatusOk
           /\ writes.index = 0 /\ writes.content = 0
           /\ writes.user = (IF Len(sent) = 1 THEN 0 ELSE 1)
        \/ /\ result = Err("InvalidSignature")
           /\ sent = <<"Who">> /\ writes = NoWrites
        \/ /\ result = Err("DatabaseError")
           /\ sent = <<"Who">> /\ writes = NoWrites

C9_Witness ==
    /\ pc = "done" /\ result = UnexpectedResponseCode(StatusNotFound)
    /\ sent = <<"Who", "ExchangeContent", "GetIndexes">>
    /\ writes.user = 1

\* C10: on an accepted connection the loop leaves AwaitVersion only for
\* DecodeCategory or to end, DecodeCategory only for DecodeCommand,
\* DecodeCommand only for Dispatch (a failed decode of either ends the task),
\* and once a command is dispatched and its response written the loop is
\* back at AwaitVersion; the end of a closed stream at the version decode ends
\* the loop with no error line and no command processed.
C10_Step ==
    /\ conn = "AwaitVersion" =>
        conn' \in {"AwaitVersion", "DecodeCategory", "Ended"}
    /\ conn = "DecodeCategory" =>
        conn' \in {"DecodeCategory", "DecodeCommand", "Panicked"}
    /\ conn = "DecodeCommand" =>
        conn' \in {"DecodeCommand", "Dispatch", "Panicked"}
    /\ conn = "Dispatch" => conn' \in {"Dispatch", "AwaitVersion", "Panicked"}
    /\ conn \in {"Ended", "Panicked"} => conn' = conn
    /\ responded' # responded =>
        /\ conn = "Dispatch" /\ conn' = "AwaitVersion"
        /\ handled' = handled + 1 /\ responded' = responded + 1
    /\ handled' # handled => conn = "Dispatch"
    /\ (conn = "AwaitVersion" /\ conn' = "DecodeCategory") =>
        (stream # <<>> /\ Head(stream) = 1 /\ stream' = Tail(stream))
    /\ (conn = "AwaitVersion" /\ conn' = "Ended"
            /\ lastDecode' = "UnexpectedEof") =>
        /\ stream = <<>> /\ closed
        /\ errors' = errors /\ handled' = handled /\ responded' = responded

C10_ServerLoop == [][C10_Step]_vars

C10_Witness ==
    /\ conn = "Ended" /\ lastDecode = "UnexpectedEof"
    /\ handled = 1 /\ responded = 1 /\ errors = 0

\* C11: a connection that stops on a decode error other than the end of the
\* stream at the version decode (an unknown version, category or command
\* byte, a request payload that fails to decode, the end of the stream inside
\* a frame) has written an error line for it, with no command processed and
\* no response written for that frame.
C11_Step ==
    (/\ conn \in {"AwaitVersion", "DecodeCategory", "DecodeCommand", "Dispatch"}
     /\ conn' \in {"Ended", "Panicked"}
     /\ handled' = handled
     /\ ~(conn = "AwaitVersion" /\ lastDecode' = "UnexpectedEof")) =>
        /\ errors' = errors + 1
        /\ conn' = "Ended"
        /\ responded' = responded

C11_DecodeErrorsLogged == [][C11_Step]_vars

\* C12: a step of one connection's task, its end by EOF, by a decode error
\* or by a panic included, leaves every other connection's task and the
\* accept loop as they were; a connection with a command to dispatch can
\* always take its handler's turn, and the accept loop can always take the
\* next connection, wherever the other tasks stand.
C12_Step ==
    \A c \in Conns :
        (tasks'[c] # tasks[c] /\ tasks[c].conn # "NotAccepted") =>
            /\ \A d \in Conns \ {c} : tasks'[d] = tasks[d]
            /\ accepting' = accepting

C12_NotBlocked ==
    /\ \A c \in Conns : tasks[c].conn = "Dispatch" => ENABLED TaskDispatch(c)
    /\ \A c \in Conns :
        Alive(tasks[c]) => ENABLED (TaskDecode(c) \/ TaskDispatch(c))
    /\ (accepting /\ \E c \in Conns : tasks[c].conn = "NotAccepted") =>
            ENABLED Accept

C13_Alternate ==
    /\ srv.writes <= srv.reads /\ srv.reads <= srv.writes + 1
    /\ srv.pc = "AwaitVersion" => srv.writes = srv.reads
    /\ srv.pc = "Dispatch" => srv.reads = srv.writes + 1
    /\ srv.pc = "Ended" => srv.writes = srv.reads
    /\ Len(cli.sent) <= Len(cli.got) + 1
    /\ Len(c2s) <= 4
    /\ Len(s2c) <= 3
    /\ \A k \in 1..Len(cli.got) :
        /\ cli.got[k].k = k
        /\ cli.got[k].res.status \in HandlerStatuses(cli.sent[k])
        /\ cli.got[k].res.payload.some =>
            cli.got[k].res.payload.value.type = ResponsePayload(cli.sent[k])

\* C13 as stated: every request the task has decoded has its response
C13_AsClaimed ==
    C13_Alternate /\ (srv.pc # "Dispatch" => srv.writes = srv.reads)

C13_Witness ==
    /\ Len(cli.got) = 2
    /\ cli.sent[1] # cli.sent[2]
    /\ srv.writes = 2

\* C14: a step of any of the five handlers, whatever the request and
\* whatever it comes to, leaves the node's user, index, content and post
\* repositories and its configuration as they were.
C14_Step ==
    (call' # call \/ reply' # reply \/ lookups' # lookups) => node' = node

C14_HandlersOnlyRead == [][C14_Step]_vars

C14_Witness ==
    /\ reply.kind = "Response"
    /\ reply.res.status = StatusInternalError
    /\ node.contents # {} /\ node.posts # {} /\ node.users = {}

\* The indexes of the pairs from position j on that resolve: the tag is the
\* catalog's, the repository read did not fail and the hash is stored
RECURSIVE C15_Resolved(_)
C15_Resolved(j) ==
    IF j > Len(call.req.indexes) THEN <<>>
    ELSE LET pair == call.req.indexes[j]
             hit == {x \in node.indexes : x.hash = pair[2]}
         IN  (IF pair[1] = MangaTAG /\ ~lookups[j].fault /\ hit # {}
              THEN <<CHOOSE x \in hit : TRUE>> ELSE <<>>)
                 \o C15_Resolved(j + 1)

\* C15: GetIndexes answers Ok with the indexes of exactly the pairs that
\* resolve, in request order, whatever order the lookups finished in; no
\* response exists while a lookup is still running.
C15_GetIndexesJoined ==
    call.cmd = "GetIndexes" =>
        /\ reply.kind \in {"Running", "Response"}
        /\ reply.kind = "Running" \/
                \A j \in 1..Len(lookups) : lookups[j].state = "Done"
        /\ reply.kind = "Response" =>
            /\ reply.res.status = StatusOk
            /\ reply.res.payload.some
            /\ reply.res.payload.value.indexes = C15_Resolved(1)

C15_Witness ==
    /\ call.cmd = "GetIndexes"
    /\ reply.kind = "Response"
    /\ completed = <<2, 1>>
    /\ Len(reply.res.payload.value.indexes) = 2
    /\ reply.res.payload.value.indexes[1] # reply.res.payload.value.indexes[2]

\* The record the user repository holds for the node's own public key
C16_Own == {u \in node.users : u.pub_key = PublicKeyOf(node.private_key)}

\* The answers of Who the claim names: Ok with the node's record, the
\* timestamp and the signature by the node's key over the timestamp (little
\* endian) and the requester's address, or NotFound with no payload
C16_Answered ==
    /\ reply.kind = "Response"
    /\ IF C16_Own # {}
       THEN /\ reply.res.status = StatusOk
            /\ reply.res.payload.some
            /\ \E u \in C16_Own :
                reply.res.payload.value.user = UserResponseFrom(u)
            /\ reply.res.payload.value.timestamp = call.now
            /\ reply.res.payload.value.signature =
                Sign(node.private_key,
                     LeBytes(call.now, 8) \o call.req.request_address)
            /\ Verify(PublicKeyOf(node.private_key),
                      LeBytes(call.now, 8) \o call.req.request_address,
                      reply.res.payload.value.signature)
       ELSE /\ reply.res.status = StatusNotFound
            /\ ~reply.res.payload.some

\* C16: Who answers Ok with the node's own record, a timestamp and the
\* node's signature over (timestamp little endian || request_address) when
\* the user repository holds a record for the node's key, and NotFound with
\* no payload when it holds none.
C16_Who == call.cmd = "Who" => C16_Answered

\* What holds of Who: the answers above when the repository read succeeds,
\* and a panic with no response when it fails
C16_WhoUnlessFault ==
    call.cmd = "Who" =>
        IF call.fault THEN reply.kind = "Panicked" ELSE C16_Answered

C16_Witness ==
    /\ call.cmd = "Who" /\ ~call.fault
    /\ reply.kind = "Response" /\ reply.res.status = StatusOk
    /\ call.req.request_address = AddrC /\ call.now = 2

\* The answers of GetAllIndexes the claim names: Ok with every stored index
\* of the catalog once each and nothing else, or InvalidArgument with no
\* payload for another tag
C17_Answered ==
    /\ reply.kind = "Response"
    /\ IF call.req.tag = MangaTAG
       THEN /\ reply.res.status = StatusOk
            /\ reply.res.payload.some
            /\ LET got == reply.res.payload.value.indexes
               IN  /\ {got[j] : j \in 1..Len(got)} = node.indexes
                   /\ Len(got) = Cardinality(node.indexes)
       ELSE /\ reply.res.status = StatusInvalidArgument
            /\ ~reply.res.payload.some

\* C17: GetAllIndexes answers Ok with every index stored for a recognized
\* tag, none missing and none from elsewhere, and InvalidArgument with no
\* payload for any other tag.
C17_GetAllIndexes == call.cmd = "GetAllIndexes" => C17_Answered

\* What holds of GetAllIndexes: the answers above unless the catalog's
\* select fails, and then a panic with no response
C17_GetAllIndexesUnlessFault ==
    call.cmd = "GetAllIndexes" =>
        IF call.fault THEN reply.kind = "Panicked" ELSE C17_Answered

C17_Witness ==
    /\ call.cmd = "GetAllIndexes" /\ ~call.fault
    /\ reply.kind = "Response" /\ reply.res.status = StatusOk
    /\ Len(reply.res.payload.value.indexes) = 2

\* C18: ExchangeContent answers Ok with at most count records, as many as
\* the repository has up to count, each one a record the content repository
\* holds, whether or not its signature verifies; when the repository read
\* fails it answers InternalError with no payload.
C18_ExchangeContent ==
    call.cmd = "ExchangeContent" =>
        /\ reply.kind = "Response"
        /\ IF call.fault
           THEN /\ reply.res.status = StatusInternalError
                /\ ~reply.res.payload.some
           ELSE /\ reply.res.status = StatusOk
                /\ reply.res.payload.some
                /\ LET got == reply.res.payload.value.contents
                       n == Cardinality(node.contents)
                   IN  /\ Len(got) <= call.req.count
                       /\ Len(got) = IF n < call.req.count
                                     THEN n ELSE call.req.count
                       /\ \A j \in 1..Len(got) : got[j] \in node.contents

C18_Witness ==
    /\ call.cmd = "ExchangeContent" /\ ~call.fault
    /\ call.req.count = 1
    /\ Cardinality(node.contents) = 3
    /\ reply.kind = "Response"
    /\ reply.res.payload.value.contents = <<ContentForged>>
    /\ ~ContentVerify(ContentForged)

\* The responses the four constructors build
C19_Constructed ==
    {ResponseOk(Encoded(ResponsePayload(X), 1)) : X \in Commands}
        \cup {ResponseNotFound, ResponseInvalidArgument, ResponseInternalError}

\* C19: a response has a payload exactly when its status is Ok: the ones the
\* constructors build, the ones the server has written (the two status
\* bytes in big endian order, then the payload after 200 and the message
\* after 400, 404 and 500) and the ones a client has decoded from any peer;
\* so payload_if_ok gives MissingPayload for none of them.
C19_PayloadIffOk ==
    /\ \A res \in C19_Constructed : res.payload.some <=> res.status = StatusOk
    /\ (srv.writes = 1 /\ s2c # <<>>) =>
        /\ Len(s2c) = 3
        /\ s2c[1].type = "u8" /\ s2c[2].type = "u8"
        /\ LET code == s2c[1].v * 256 + s2c[2].v
           IN  /\ code \in ErrorStatuses \cup {StatusOk}
               /\ code = StatusOk => s2c[3].type = ResponsePayload(cli.sent[1])
               /\ code \in ErrorStatuses => s2c[3].type = "String"
    /\ \A k \in 1..Len(cli.got) :
        /\ cli.got[k].res.payload.some <=> cli.got[k].res.status = StatusOk
        /\ cli.got[k].res.status \in ErrorStatuses \cup {StatusOk}
        /\ PayloadIfOk(cli.got[k].res) # Err("MissingPayload")

C19_Witness ==
    /\ srv.reads = 0
    /\ Len(cli.got) = 1
    /\ cli.got[1].res.status = StatusNotFound
    /\ ~cli.got[1].res.payload.some

\* The triple of header bytes of a command
C20_Triple(X) == <<VERSION, COMMAND_CATEGORY(X), COMMAND(X)>>

\* C20: the commands have the fixed triples (1, 0, 0) GetUsers, (1, 0, 1)
\* Who, (1, 1, 0) GetAllIndexes, (1, 1, 1) ExchangeContent and (1, 1, 2)
\* GetIndexes, no two alike; the server's decode of a command's triple gives
\* that command, so a request the client encodes for a command is in the
\* hands of that command's handler with its request payload decoded, and
\* the response the client decodes has that command's response payload.
C20_Identity ==
    /\ C20_Triple("GetUsers") = <<1, 0, 0>>
    /\ C20_Triple("Who") = <<1, 0, 1>>
    /\ C20_Triple("GetAllIndexes") = <<1, 1, 0>>
    /\ C20_Triple("ExchangeContent") = <<1, 1, 1>>
    /\ C20_Triple("GetIndexes") = <<1, 1, 2>>
    /\ \A X, Y \in Commands : X # Y => C20_Triple(X) # C20_Triple(Y)
    /\ \A X \in Commands :
        /\ VersionOf(C20_Triple(X)[1]) = Some("V1")
        /\ CategoryOf(C20_Triple(X)[2]).some
        /\ CommandOf(CategoryOf(C20_Triple(X)[2]).value, C20_Triple(X)[3])
                = Some(X)
    /\ srv.pc # "Ended"
    /\ srv.pc = "Panicked" => srv.reads = srv.writes + 1
    /\ srv.pc = "Dispatch" =>
        /\ srv.cur.k = srv.reads
        /\ srv.cur.cmd = cli.sent[srv.cur.k]
    /\ \A k \in 1..Len(cli.got) :
        cli.got[k].res.payload.some =>
            cli.got[k].res.payload.value =
                Encoded(ResponsePayload(cli.sent[k]), k)

C20_Witness ==
    /\ srv.pc = "Dispatch"
    /\ srv.cur.cmd = "GetIndexes"
    /\ Len(cli.got) = 1 /\ cli.sent[1] = "Who"
    /\ cli.got[1].res.payload.some


\* A value was encoded without error and its bytes decoded as the same type
C21_Encoded == bpc = "Decoded" /\ encoded.ok

\* The types that hold a ContentEntry
C21_EntryTypes == {TContentEntry(TMangaChapter), TContent, TTaggedContent}

\* C21: every wire type round-trips: decoding the bytes an encode wrote gives
\* back the value encoded and consumes exactly those bytes.
C21_RoundTrip == C21_Encoded => decoded = DecodeOk(wval, <<>>)

\* C21, where the code has it: on a sink that takes every write whole the
\* bytes decode, to the last one, to a value with the same encoding, and to
\* the value encoded unless it holds a ContentEntry
C21_RoundTripOfWholeWrites ==
    C21_Encoded /\ taken = 0 =>
        /\ decoded.ok
        /\ decoded.rest = <<>>
        /\ Encode(wtype, decoded.value, 0) = encoded
        /\ wtype \notin C21_EntryTypes => decoded.value = wval

\* A String of two bytes went to a sink that took one byte of the write
C21_Witness ==
    /\ C21_Encoded
    /\ wtype = TString
    /\ wval = <<97, 98>>
    /\ taken = 1
    /\ sink = <<0, 2, 97>>
    /\ decoded = DecodeErr(IoError)


\* A String or a Vec has been given to encode
C22_Step == bpc = "Encoded" /\ wtype.k \in {"String", "Vec"}

\* C22: encoding a String or a Vec fails with TooManyElements { allowed:
\* 65535, actual: len } exactly when it has more than 65535 bytes or elements,
\* and then nothing is written; otherwise the first two bytes written are the
\* length, big-endian.
C22_LengthPrefix ==
    C22_Step =>
        IF Len(wval) > 65535
        THEN /\ ~encoded.ok
             /\ encoded.err = TooManyElements(65535, Len(wval))
             /\ sink = <<>>
        ELSE /\ encoded.err.kind # "TooManyElements"
             /\ Len(sink) >= 2
             /\ sink[1] * 256 + sink[2] = Len(wval)

\* A String of 65536 bytes was refused
C22_Witness ==
    /\ C22_Step
    /\ wtype.k = "String"
    /\ Len(wval) = 65536
    /\ encoded.err.kind = "TooManyElements"

\* A Vec of 65535 elements was written behind the prefix ff ff
C22_WitnessAtLimit ==
    /\ C22_Step
    /\ wtype.k = "Vec"
    /\ Len(wval) = 65535
    /\ encoded.ok
    /\ sink = <<255, 255>>


\* The number a string of decimal digits stands for
RECURSIVE C23_Number(_)
C23_Number(digits) ==
    IF digits = <<>> THEN 0
    ELSE 10 * C23_Number(SubSeq(digits, 1, Len(digits) - 1))
            + (digits[Len(digits)] - 48)

\* The decode was refused as an unknown variant of the type being decoded
C23_Rejected ==
    /\ ~decoded.ok
    /\ decoded.err.kind = "InvalidEnumVariant"
    /\ decoded.err.enum_name = (IF wtype.k = "AuroraStatus" THEN "AuroraStatus"
                                ELSE wtype.name)

\* C23: a byte that is no discriminant of a data-less enum, a tag string that
\* is not the known tag of TaggedIndex or TaggedContent, and a status code
\* other than 200, 400, 404 and 500 are each refused with InvalidEnumVariant
\* carrying the value read and the name of the enum.
C23_UnknownRejected ==
    bpc = "Decoded" =>
        /\ wtype.k = "enum" /\ Len(sink) >= 1 /\ sink[1] \notin wtype.variants =>
                /\ C23_Rejected
                /\ C23_Number(decoded.err.variant_value) = sink[1]
        /\ wtype.k = "tagged" =>
                LET tag == Decode(TString, sink)
                IN  tag.ok /\ tag.value # MangaTAG =>
                        C23_Rejected /\ decoded.err.variant_value = tag.value
        /\ wtype.k = "AuroraStatus" /\ Len(sink) >= 2
             /\ (sink[1] * 256 + sink[2]) \notin {200, 400, 404, 500} =>
                /\ C23_Rejected
                /\ C23_Number(decoded.err.variant_value) = sink[1] * 256 + sink[2]

\* The byte 5, one past the last Language, was refused by name
C23_Witness ==
    /\ bpc = "Decoded"
    /\ wtype.k = "enum"
    /\ sink = <<5>>
    /\ decoded = DecodeErr(InvalidEnumVariant(<<53>>, "Language"))

\* The tag "manga" was refused in place of "mangas"
C23_WitnessTag ==
    /\ bpc = "Decoded"
    /\ wtype.k = "tagged"
    /\ ~decoded.ok
    /\ decoded.err = InvalidEnumVariant(<<109, 97, 110, 103, 97>>, "TaggedIndex")

\* The status code 456 was refused
C23_WitnessStatus ==
    /\ bpc = "Decoded"
    /\ wtype.k = "AuroraStatus"
    /\ ~decoded.ok
    /\ decoded.err = InvalidEnumVariant(<<52, 53, 54>>, "AuroraStatus")


\* A decode has failed on the stream
C24_Failed == ~decoded.ok /\ decoded.err.kind # "None"

\* C24: a decode that fails yields the error alone, whatever the type and
\* wherever the bytes end; and once a decode has failed on a stream nothing
\* more is decoded from it: the server's task has left its loop and the
\* client's operation has returned, with the rest of the stream unread.
C24_FailedDecodeEndsStream ==
    [][/\ ~decoded'.ok => DOMAIN decoded' = {"ok", "err"}
       /\ C24_Failed =>
            /\ UNCHANGED <<decoded, frames, sink>>
            /\ bpc \in {"Decoded", "Ended", "Panicked", "Aborted"}]_vars

\* A task panicked on a payload that ended early, with bytes left unread
C24_Witness ==
    /\ bpc = "Panicked"
    /\ decoded = DecodeErr(IoError)
    /\ frames = 1
    /\ sink # <<>>

\* A client gave up on a response whose status code is unknown, after one
\* response was read whole
C24_WitnessClient ==
    /\ bpc = "Aborted"
    /\ frames = 1
    /\ decoded.err.kind = "InvalidEnumVariant"
    /\ sink # <<>>


\* C25: the hash of an index is a function of the tag, the sanitized title
\* and the release date: Index::new and Index::new_signed give two indexes
\* whose titles sanitize alike and whose dates are equal the same hash
\* whatever their key and signature, digest different bytes when the
\* sanitized title or the date differs, and signing leaves the hash alone.
C25_HashOfSanitizedTitleAndDate ==
    /\ made.kind = "Indexes" =>
        IF /\ SanitizedString(made.a.title) = SanitizedString(made.b.title)
           /\ made.a.release_date = made.b.release_date
        THEN made.a.hash = made.b.hash
        ELSE made.a.hash.sha512 # made.b.hash.sha512
    /\ made.kind = "IndexSigned" => made.after.hash = made.before.hash

\* "My T" signed by one key and "myt" unsigned under another have one hash
C25_Witness ==
    /\ made.kind = "Indexes"
    /\ made.a.title = TitleA
    /\ made.b.title = <<109, 121, 116>>
    /\ made.a.source # made.b.source
    /\ made.a.signature # made.b.signature
    /\ made.a.hash = made.b.hash

\* An unsigned index was signed
C25_WitnessSigned ==
    /\ made.kind = "IndexSigned"
    /\ made.before.signature = SignatureEmpty
    /\ made.after.signature # SignatureEmpty


\* C26: a record built by new_signed (Index, Content, User, Post) verifies
\* under the key it carries, and with one signed field changed or its key
\* replaced, the signature kept, it does not.
C26_SignedThenTampered ==
    /\ made.kind = "Signed" => VerifyOf(made.of, made.rec)
    /\ made.kind = "Tampered" => ~VerifyOf(made.of, made.now)

\* C26, as the code has it: the record verifies when the key it carries is
\* the public key of the signer; a changed record verifies exactly when the
\* key is kept and the bytes signed come out the same, which a change of an
\* index title within its sanitized form and a change of a content's entries
\* within their concatenation do
C26_SignedBytesDecide ==
    /\ made.kind = "Signed" =>
        (VerifyOf(made.of, made.rec)
            <=> made.rec[KeyField(made.of)] = PublicKeyOf(made.priv))
    /\ made.kind = "Tampered" =>
        /\ VerifyOf(made.of, made.now)
            <=> /\ made.field # KeyField(made.of)
                /\ SignedBytesOf(made.of, made.now) = SignedBytesOf(made.of, made.rec)
        /\ VerifyOf(made.of, made.now) =>
            \/ made.of = "Index" /\ made.field = "title"
            \/ made.of = "Content" /\ made.field = "entries"

\* A content whose one entry was given another title and another path
\* verifies under the signature made over the entry as it was
C26_Witness ==
    /\ made.kind = "Tampered"
    /\ made.of = "Content"
    /\ made.rec.entries = <<EntryX>>
    /\ made.now.entries = <<EntryY>>
    /\ ContentVerify(made.now)

\* Content::new_signed with a source that is not the signer's key
C26_WitnessSource ==
    /\ made.kind = "Signed"
    /\ made.of = "Content"
    /\ ~ContentVerify(made.rec)

\* An index whose title was changed from "My T" to "myt" verifies
C26_WitnessTitle ==
    /\ made.kind = "Tampered"
    /\ made.of = "Index"
    /\ made.rec.title = TitleA
    /\ made.now.title = <<109, 121, 116>>
    /\ IndexVerify(made.now)


\* The upsert of the user that who_internal returned
C27_Upsert == pc = "upsert" /\ pc' = "sample"

\* The lowest TrustLevel other than Ignore
C27_Least ==
    CHOOSE t \in {TrustLevels[j] : j \in 1..Len(TrustLevels)} \ {"Ignore"} :
        \A j \in 1..Len(TrustLevels) :
            TrustLevels[j] # "Ignore" => TrustRank(t) <= j

\* The peer's record is among the users with the trust given, and no step
\* writes a user record with a higher one
C27_UpsertedWith(t) ==
    /\ C27_Upsert =>
        \E u \in users' :
            /\ u.pub_key = who.value.pub_key
            /\ UserResponseFrom(u) = UserResponseFrom(who.value)
            /\ u.trust = t
    /\ \A u \in users' \ users : TrustRank(u.trust) <= TrustRank(t)

\* C27: after a successful Who the peer's user record is upserted with the
\* lowest trust level other than Ignore (Unverified, in the order Ignore,
\* Unverified, Untrusted, Trusted, FullTrust), and an exchange never gives a
\* peer a higher level.
C27_UpsertedLeast == [][C27_UpsertedWith(C27_Least)]_vars

\* C27, amended: the level is Untrusted, one above the lowest level other
\* than Ignore, and an exchange never writes a user record with a higher one
C27_UpsertedUntrusted ==
    /\ TrustRank("Untrusted") = TrustRank(C27_Least) + 1
    /\ [][C27_UpsertedWith("Untrusted")]_vars

\* The peer's record was written with trust Untrusted
C27_Witness ==
    /\ pc = "sample"
    /\ writes.user = 1
    /\ \E u \in users : u.pub_key = PublicKeyOf(KeyA) /\ u.trust = "Untrusted"


\* The Diff loop has gone through the sample; GetIndexes is not yet sent
C28_EndOfDiff == pc = "diff" /\ i > Len(sample)

\* How many elements of a sequence satisfy: being x / having the index_hash h
C28_Times(seq, x) == Cardinality({k \in 1..Len(seq) : seq[k] = x})
C28_Sampled(h) == Cardinality({k \in 1..Len(sample) : sample[k].index_hash = h})

\* C28: at the end of Diff every sampled record's index_hash is in exactly
\* one of existing_indexes (exactly when the local index repository holds an
\* index of that hash) and missing_indexes, and missing_indexes holds each
\* (tag, hash) pair at most once.
C28_Partition ==
    C28_EndOfDiff =>
        /\ \A j \in 1..Len(sample) :
            LET h == sample[j].index_hash
            IN  /\ h \in existing_indexes <=> GetIndex(indexes, h).some
                /\ h \in existing_indexes <=> C28_Times(missing_indexes, <<MangaTAG, h>>) = 0
        /\ \A k \in 1..Len(missing_indexes) :
            C28_Times(missing_indexes, missing_indexes[k]) = 1

\* C28, as the code has it: existing_indexes holds only sampled hashes the
\* repository holds and missing_indexes only sampled hashes it does not hold,
\* so no hash is in both; when no lookup failed every sampled hash is in one
\* of them, and a missing hash is listed once for every record that has it
C28_DiffAsCoded ==
    C28_EndOfDiff =>
        /\ \A h \in existing_indexes :
            GetIndex(indexes, h).some /\ C28_Sampled(h) > 0
        /\ \A k \in 1..Len(missing_indexes) :
            /\ missing_indexes[k][1] = MangaTAG
            /\ ~GetIndex(indexes, missing_indexes[k][2]).some
            /\ C28_Times(missing_indexes, missing_indexes[k])
                    <= C28_Sampled(missing_indexes[k][2])
        /\ faults = 0 =>
            \A j \in 1..Len(sample) :
                LET h == sample[j].index_hash
                IN  IF GetIndex(indexes, h).some THEN h \in existing_indexes
                    ELSE C28_Times(missing_indexes, <<MangaTAG, h>>) = C28_Sampled(h)

\* Two sampled records of one index the repository does not hold: the pair
\* is listed twice
C28_Witness ==
    /\ C28_EndOfDiff
    /\ Len(sample) = 2
    /\ sample[1].index_hash = sample[2].index_hash
    /\ Len(missing_indexes) = 2
    /\ missing_indexes[1] = missing_indexes[2]

\* A lookup failed: the record's hash is in neither
C28_WitnessFault ==
    /\ C28_EndOfDiff
    /\ Len(sample) = 1
    /\ existing_indexes = {}
    /\ missing_indexes = <<>>


\* Some index handed to add_index in this run carries the hash h and verifies
C29_Backfilled(h) == \E ix \in passedIndexes : ix.hash = h /\ IndexVerify(ix)

\* Every hash of existing_indexes is that of a record the index repository
\* holds: one held when the run began, or one that verified and was persisted
C29_Sound ==
    pc = "commit" =>
        \A h \in existing_indexes :
            /\ GetIndex(indexes, h).some
            /\ KnownAtStart(h) \/ C29_Backfilled(h)

\* One turn of the Backfill loop: an index that fails verify changes nothing;
\* existing_indexes grows only by the hash of an index that verified and is
\* now stored; an index that was persisted has its hash in existing_indexes
C29_Turn ==
    (pc = "backfill" /\ i <= Len(respIndexes)) =>
        LET index == IndexDecode(respIndexes[i])
        IN  /\ ~IndexVerify(index) =>
                UNCHANGED <<indexes, existing_indexes, passedIndexes, writes>>
            /\ existing_indexes' # existing_indexes =>
                /\ IndexVerify(index)
                /\ existing_indexes' = existing_indexes \cup {index.hash}
                /\ index \in indexes' /\ index \in passedIndexes'
            /\ writes'.index # writes.index =>
                /\ IndexVerify(index)
                /\ index \in indexes'
                /\ index.hash \in existing_indexes'

\* C29: when Commit starts every hash in existing_indexes is the hash of an
\* index present in the local index repository (found at Diff, or returned by
\* GetIndexes, verified and persisted by add_index in this run); an index that
\* fails verify is never passed to add_index and adds no hash, and an index
\* that verifies and is persisted has its hash added.
C29_BackfillSound == []C29_Sound /\ [][C29_Turn]_vars

\* Commit starts after a Backfill that met an index failing verify, whose
\* hash was not added, and one that was persisted
C29_Witness ==
    /\ peerHostile /\ pc = "commit" /\ i = 1
    /\ \E h \in existing_indexes : ~KnownAtStart(h) /\ C29_Backfilled(h)
    /\ \E j \in 1..Len(respIndexes) :
        /\ ~IndexVerify(IndexDecode(respIndexes[j]))
        /\ IndexDecode(respIndexes[j]).hash \notin existing_indexes

\* Commit starts with one hash found at Diff and one persisted by Backfill
C29_WitnessBoth ==
    /\ pc = "commit" /\ i = 1
    /\ \E h \in existing_indexes : KnownAtStart(h)
    /\ \E h \in existing_indexes : ~KnownAtStart(h) /\ C29_Backfilled(h)


\* The commands of routine_exchange, in the order of its code
C30_Commands == <<"Who", "ExchangeContent", "GetIndexes">>
C30_First(n) == SubSeq(C30_Commands, 1, n)

\* Where the run stands tells which commands have been written and answered:
\* nothing before the connect and before Who; Who, answered Ok, before the
\* upsert and the ExchangeContent request; both, answered Ok, during Diff;
\* all three, answered Ok, during Backfill and Commit
C30_Stands ==
    /\ pc \in {"idle", "who"} => sent = <<>> /\ writes = NoWrites
    /\ pc \in {"upsert", "sample"} =>
        /\ sent = C30_First(1)
        /\ whoResp.some /\ whoResp.value.status = StatusOk
        /\ writes.user = (IF pc = "sample" THEN 1 ELSE 0)
    /\ pc = "diff" => sent = C30_First(2) /\ lastStatus = StatusOk
    /\ pc \in {"backfill", "commit"} => sent = C30_Commands /\ lastStatus = StatusOk
    /\ pc = "done" => \E n \in 0..3 : sent = C30_First(n)

\* One step of a run: the stream is connected once, before anything is
\* written; a command is written only at its place; the user is written
\* between Who and ExchangeContent, the Diff lookups are made between
\* ExchangeContent and GetIndexes, and indexes and contents are written after
\* GetIndexes
C30_Step ==
    /\ pc' # pc /\ pc' = "who" => pc = "idle"
    /\ pc' # pc /\ pc' = "idle" => pc = "done" /\ run' = run + 1
    /\ sent' # sent /\ pc # "done" =>
        \/ pc = "who" /\ sent' = C30_First(1)
        \/ /\ pc = "sample" /\ sent' = C30_First(2) /\ writes.user = 1
           /\ (~peerHostile /\ pc' = "diff") =>
                \E res \in ExchangeContentProcess([count |-> 10], peer) :
                    /\ res.payload.some
                    /\ sample' = res.payload.value.contents
        \/ pc = "diff" /\ i > Len(sample) /\ sent' = C30_Commands
    /\ (users' # users \/ writes'.user > writes.user) =>
        pc = "upsert" /\ sent = C30_First(1) /\ sent' = sent
    /\ (pc = "diff" /\ i <= Len(sample)) =>
        sent = C30_First(2) /\ sent' = sent /\ i' = i + 1 /\ pc' = pc
    /\ (indexes' # indexes \/ writes'.index > writes.index) =>
        pc = "backfill" /\ sent = C30_Commands /\ sent' = sent
    /\ (contents' # contents \/ writes'.content > writes.content) =>
        pc = "commit" /\ sent = C30_Commands /\ sent' = sent

\* C30: routine_exchange issues Who, ExchangeContent(count = 10), GetIndexes
\* in this order over the stream of one connect, each after the response to
\* the one before; the user upsert lies between the Who response and the
\* ExchangeContent request, the Diff lookups between the ExchangeContent
\* response and the GetIndexes request, and every index and content write
\* after the GetIndexes response.
C30_FixedOrder == []C30_Stands /\ [][C30_Step]_vars

\* A run that went through every step and wrote a user, an index and a content
C30_Witness ==
    /\ pc = "done" /\ result = Ok /\ sent = C30_Commands
    /\ Len(sample) = 2 /\ Len(respIndexes) > 0
    /\ writes.user = 1 /\ writes.index > 0 /\ writes.content > 0


\* A call has returned Ok
C31_ReturnedOk == op # NoOp /\ op.at = "Returned" /\ op.ret.result = Ok

\* C31: every record a client operation hands back has passed signature
\* verification: get_all_indexes returns only indexes that verify, who
\* returns a User only if the freshness signature and the User's own
\* signature verify, and request_users returns only users that verify.
C31_ReturnedVerified ==
    C31_ReturnedOk =>
        \A k \in 1..Len(op.ret.value) :
            IF op.name = "get_all_indexes" THEN IndexVerify(op.ret.value[k])
            ELSE IF op.name = "who"
            THEN /\ UserVerify(op.ret.value[k])
                 /\ WhoResponseVerify(op.res.payload.value, op.host)
            ELSE UserVerify(op.ret.value[k])

\* C31, for the two calls that check: get_all_indexes and who
C31_ReturnedVerifiedButUsers ==
    (C31_ReturnedOk /\ op.name # "request_users") =>
        /\ op.name = "who" =>
            /\ Len(op.ret.value) = 1
            /\ UserVerify(op.ret.value[1])
            /\ WhoResponseVerify(op.res.payload.value, op.host)
        /\ op.name = "get_all_indexes" =>
            /\ \A k \in 1..Len(op.ret.value) : IndexVerify(op.ret.value[k])
            /\ \A j \in 1..Len(op.res.payload.value.indexes) :
                LET index == IndexDecode(op.res.payload.value.indexes[j])
                IN  IndexVerify(index) =>
                        \E k \in 1..Len(op.ret.value) : op.ret.value[k] = index

\* request_users has returned a user whose signature does not verify
C31_Witness ==
    /\ C31_ReturnedOk /\ op.name = "request_users"
    /\ \E k \in 1..Len(op.ret.value) : ~UserVerify(op.ret.value[k])

\* get_all_indexes has dropped an index that fails verify and kept another
C31_WitnessIndexes ==
    /\ C31_ReturnedOk /\ op.name = "get_all_indexes"
    /\ Len(op.ret.value) = 1
    /\ Len(op.res.payload.value.indexes) = 2


\* who has returned a user
C32_WhoReturned ==
    /\ op # NoOp /\ op.name = "who" /\ op.at = "Returned"
    /\ op.ret.result = Ok

\* C32: every User that who() returns with trust Untrusted has an address
\* field equal to the address that was dialed for that Who request.
C32_AddressIsDialed ==
    C32_WhoReturned =>
        \A k \in 1..Len(op.ret.value) :
            op.ret.value[k].trust = "Untrusted" =>
                op.ret.value[k].address = op.url

\* C32, as the code has it: the returned user is Untrusted, its address is
\* the one its key signed in the user record, and the freshness signature
\* is that key's over the caller's own address
C32_AddressIsSigned ==
    C32_WhoReturned =>
        /\ Len(op.ret.value) = 1
        /\ op.ret.value[1].trust = IdentifiedTrust
        /\ op.ret.value[1].address = op.res.payload.value.user.address
        /\ UserVerify(op.ret.value[1])
        /\ Verify(op.ret.value[1].pub_key,
                  WhoVerificationBytes(op.res.payload.value.timestamp, op.host),
                  op.res.payload.value.signature)

\* The peer dialed at one address is returned as Untrusted under another
C32_Witness ==
    /\ C32_WhoReturned
    /\ op.url = AddrA
    /\ op.ret.value[1].trust = "Untrusted"
    /\ op.ret.value[1].address = AddrC


\* C33: trust is never put on the wire: converting a User to its wire form
\* UserResponse and back with as_user preserves pub_key, name, timestamp,
\* address and signature (so User::verify gives the same result before and
\* after) and always yields trust Unverified, whatever trust the sender held.
C33_TrustNotOnWire ==
    made.kind = "Wired" =>
        /\ DOMAIN made.wire = {"pub_key", "name", "signature", "timestamp", "address"}
        /\ \A f \in DOMAIN made.wire :
            made.wire[f] = made.held[f] /\ made.back[f] = made.held[f]
        /\ UserVerify(made.back) <=> UserVerify(made.held)
        /\ made.back.trust = "Unverified"

\* A user held at the highest level, whose signature verifies, went over
C33_Witness ==
    /\ made.kind = "Wired"
    /\ made.held.trust = "FullTrust"
    /\ UserVerify(made.held)

\* A user whose signature does not verify went over
C33_WitnessInvalid ==
    /\ made.kind = "Wired"
    /\ made.held.trust = "Trusted"
    /\ ~UserVerify(made.held)


\* A Who handler holds the read guard
C34_Guarded(t) == whoTasks[t].at \in {"Reading", "Looked"}

\* The lock is held by readers or by the writer, never both; the guard of
\* every handler at work is counted; a finished handler's Ok response has a
\* freshness signature that verifies under the key of the user it carries
C34_Held ==
    /\ rwlock.writer => rwlock.readers = {}
    /\ rwlock.writer <=> saving.at = "Writing"
    /\ rwlock.readers = {t \in WhoHandlers : C34_Guarded(t)}
    /\ \A t \in WhoHandlers :
        (whoTasks[t].at = "Done" /\ whoTasks[t].reply.value.status = StatusOk) =>
            WhoResponseVerify(whoTasks[t].reply.value.payload.value,
                              whoTasks[t].request_address)

\* The configuration does not change while a handler holds the guard, and
\* the user a handler has looked up is the one of the key it signs with
C34_Step ==
    /\ (\E t \in WhoHandlers : C34_Guarded(t)) => config' = config
    /\ \A t \in WhoHandlers :
        (whoTasks[t].at = "Looked" /\ whoTasks[t].user.some) =>
            whoTasks[t].user.value.pub_key = PublicKeyOf(config.private_key)

\* C34: Who holds the config read lock across the own-user lookup and the
\* signing, and a config update takes the write lock exclusively, so an
\* update entirely precedes or follows each Who processing and every Who
\* response's freshness signature verifies under the public key of the user
\* record returned in the same response.
C34_SigningIdentityAtomic == []C34_Held /\ [][C34_Step]_vars

\* A save that changes the key waited for a handler, which answered under
\* the key it began with, and then wrote
C34_Witness ==
    /\ \E t \in WhoHandlers :
        /\ whoTasks[t].at = "Done"
        /\ whoTasks[t].reply.value.status = StatusOk
        /\ whoTasks[t].reply.value.payload.value.user.pub_key # config.public_key
    /\ saving.at = "Done"

\* Two handlers hold the guard while a save waits for the lock
C34_WitnessReaders ==
    /\ rwlock.readers = WhoHandlers
    /\ saving.at = "Saved"
    /\ saving.config_to_save.public_key # config.public_key


\* The run is suspended on a peer that has fallen silent
C35_Suspended == stalled /\ AtRoundTrip

\* Suspended on a silent peer, a step changes neither the place of the run
\* nor its result, nothing is written and nothing is sent
C35_Step ==
    C35_Suspended =>
        /\ pc' = pc /\ result' = result /\ i' = i
        /\ sent' = sent
        /\ UNCHANGED repoVars

\* C35: no timeout is enforced on a peer: if the peer stops answering after
\* the stream is established, routine_exchange stays suspended at that round
\* trip forever; it never returns (Ok or Err) without a response or a
\* transport error arriving.
C35_SuspendedForever ==
    /\ [][C35_Step]_vars
    /\ [](C35_Suspended => [](C35_Suspended /\ pc # "done"))

\* The peer fell silent before answering ExchangeContent and time has passed
C35_Witness ==
    /\ stalled /\ elapsed
    /\ pc = "sample"
    /\ sent = <<"Who">>

\* The peer fell silent before answering GetIndexes
C35_WitnessLast ==
    /\ stalled /\ elapsed
    /\ pc = "diff" /\ i > Len(sample) /\ Len(sample) > 0


\* Never two exchanges at once; a running future keeps the flag up
C39_OneAtATime ==
    /\ Cardinality(Live) <= 1
    /\ Live # {} => exchanging /\ finishes = 0
    /\ finishes <= 1
    /\ finishes = 1 => exchanging

\* The flag goes up only when a future is started and down only when
\* FinishExchange is handled; while it is up an Exchange starts nothing
C39_Flag ==
    /\ (~exchanging /\ exchanging') => Len(uiTasks') = Len(uiTasks) + 1
    /\ Len(uiTasks') > Len(uiTasks) => (~exchanging /\ exchanging')
    /\ (exchanging /\ ~exchanging') => finishes' = finishes - 1
    /\ exchanging => Len(uiTasks') = Len(uiTasks)

\* Every future that has ended has delivered FinishExchange
C39_EndedDelivered ==
    \A k \in 1..Len(uiTasks) :
        uiTasks[k].at \notin {"Picking", "Exchanging"} => uiTasks[k].delivered

\* C39: the periodic Exchange trigger never runs two exchanges at once:
\* while the flag is true an Exchange starts no task, the flag becomes true
\* only when a task is started, and every started task ends by delivering
\* FinishExchange (after a successful exchange, after an exchange error,
\* after failing to pick a user, after picking the own user, in which case
\* no connection is made), the only message that clears the flag.
C39_ExchangeFlag ==
    /\ [](C39_OneAtATime /\ C39_EndedDelivered)
    /\ [][C39_Flag]_vars

\* C39 without the delivery: exchanges never overlap, the flag follows the
\* futures, and a future that returns delivers FinishExchange without having
\* connected unless it picked another user
C39_NeverTwo ==
    /\ [](C39_OneAtATime /\
          \A k \in 1..Len(uiTasks) :
            /\ uiTasks[k].at = "Returned" <=> uiTasks[k].delivered
            /\ uiTasks[k].at = "Panicked" => ~uiTasks[k].connected)
    /\ [][C39_Flag]_vars

\* A future ended in the repository's unwrap; the flag stays up and later
\* Exchange messages started nothing
C39_Witness ==
    /\ Len(uiTasks) = 1
    /\ uiTasks[1].at = "Panicked"
    /\ exchanging
    /\ finishes = 0
    /\ ticks = MaxTicks

\* A second exchange was started after the first had finished
C39_WitnessAgain ==
    /\ Len(uiTasks) = 2
    /\ uiTasks[1].at = "Returned"
    /\ uiTasks[2].at = "Exchanging"


\* The run has returned an error
C36_ReturnedErr == pc = "done" /\ result # Ok

\* C36: if routine_exchange returns an error, that run has written no index
\* and no content to the local repositories (the only write it can have made
\* is the upsert of the peer's user record): every fallible connect, encode,
\* decode and status check precedes the first add_index or add_content call.
C36_ErrorWritesNoRecord ==
    C36_ReturnedErr =>
        /\ writes.index = 0 /\ writes.content = 0
        /\ passedIndexes = {} /\ passedContents = {}
        /\ indexes = start.indexes /\ contents = start.contents
        /\ writes.user <= 1
        /\ users # start.users => writes.user = 1 /\ who.some

\* The run returned an error after the peer's user was upserted and a
\* sample was received
C36_Witness ==
    /\ C36_ReturnedErr
    /\ writes.user = 1
    /\ users # start.users
    /\ Len(sample) > 0
    /\ sent = <<"Who", "ExchangeContent", "GetIndexes">>


\* The (tag, hash) pair was in the GetIndexes request of this run
C37_Asked(h) ==
    \E k \in 1..Len(missing_indexes) : missing_indexes[k] = <<MangaTAG, h>>

\* C37: routine_exchange persists only indexes it asked for: every index
\* written during Backfill has a (tag, hash) that was in the missing_indexes
\* list of the GetIndexes request of the same run; an unsolicited index is
\* neither persisted nor added to existing_indexes.
C37_OnlyAsked ==
    /\ \A ix \in passedIndexes : C37_Asked(ix.hash)
    /\ \A ix \in indexes \ start.indexes : C37_Asked(ix.hash)
    /\ \A h \in existing_indexes : KnownAtStart(h) \/ C37_Asked(h)

\* C37, as the code has it: what Backfill persists are the indexes of the
\* GetIndexes response of the same run that verify, asked for or not; with
\* a peer that runs the GetIndexes handler they are all asked for
C37_PersistsReturnedVerified ==
    /\ \A ix \in passedIndexes :
        /\ IndexVerify(ix)
        /\ \E j \in 1..Len(respIndexes) : IndexDecode(respIndexes[j]) = ix
    /\ \A ix \in indexes \ start.indexes : ix \in passedIndexes
    /\ pc = "commit" =>
        \A j \in 1..Len(respIndexes) :
            (IndexVerify(IndexDecode(respIndexes[j])) /\ faults = 0) =>
                /\ IndexDecode(respIndexes[j]) \in passedIndexes
                /\ respIndexes[j].hash \in existing_indexes
    /\ ~peerHostile => C37_OnlyAsked

\* An index that was not asked for was persisted and its hash added
C37_Witness ==
    /\ peerHostile /\ pc = "commit"
    /\ \E ix \in indexes \ start.indexes :
        /\ ~C37_Asked(ix.hash)
        /\ ix \in passedIndexes
        /\ ix.hash \in existing_indexes

\* A peer that runs the handler returned an index that was asked for
C37_WitnessHonest ==
    /\ ~peerHostile /\ pc = "commit"
    /\ \E ix \in indexes \ start.indexes : C37_Asked(ix.hash)

\* ------------------------------------------------- a peer already known

\* The records the local repository may hold for the peer's key before a
\* run: an older or a newer self-signed record under another name and
\* address, at any trust level the local user or an earlier run has given it.
PriorUsers ==
    {SetTrust(UserNewSigned(<<67>>, ts, KeyA, AddrC), TrustLevels[j]) :
        ts \in {0, 2}, j \in 1..Len(TrustLevels)}

\* routine_exchange against a peer whose key is already in the repository
IdentifyInit ==
    /\ pc = "idle" /\ result = Err("none") /\ run = 1 /\ faults = 0
    /\ host_address = AddrB
    /\ peerHostile \in BOOLEAN
    /\ peer \in (IF peerHostile THEN {NoPeer}
                ELSE {st \in PeerStates : st.contents = {}})
    /\ \E prior \in PriorUsers : users = {UserB(host_address), prior}
    /\ indexes = {}
    /\ contents = {}
    /\ who = None /\ sample = <<>> /\ existing_indexes = {}
    /\ missing_indexes = <<>> /\ respIndexes = <<>> /\ i = 1
    /\ sent = <<>> /\ whoResp = None /\ lastStatus = 0
    /\ passedIndexes = {} /\ passedContents = {} /\ writes = NoWrites
    /\ start = [users |-> users, indexes |-> indexes, contents |-> contents]
    /\ prev = NoPrev
    /\ Accepted
    /\ AuxIdle

IdentifySpec == IdentifyInit /\ [][Next]_vars

\* C38: the Identify step's upsert replaces the record stored for the peer's
\* public key. After a successful routine_exchange exactly one record is
\* stored under that key, its trust is Untrusted whatever trust was stored
\* when the run started, and its name, timestamp, address and signature are
\* those of the Who response of this run; the upsert touches no record of
\* another key.
C38_Stored == {x \in users : x.pub_key = PublicKeyOf(KeyA)}

C38_Answered == whoResp.value.payload.value.user

C38_AfterRun ==
    (pc = "done" /\ result = Ok) =>
        /\ Cardinality(C38_Stored) = 1
        /\ \A x \in C38_Stored :
              /\ x.trust = "Untrusted"
              /\ x.name = C38_Answered.name
              /\ x.timestamp = C38_Answered.timestamp
              /\ x.address = C38_Answered.address
              /\ x.signature = C38_Answered.signature

C38_Step ==
    (pc = "upsert" /\ pc' = "sample") =>
        /\ \A x \in users' :
              x.pub_key = PublicKeyOf(KeyA) =>
                  x = SetTrust(AsUser(C38_Answered), "Untrusted")
        /\ {x \in users' : x.pub_key # PublicKeyOf(KeyA)}
              = {x \in users : x.pub_key # PublicKeyOf(KeyA)}

C38_UpsertReplaces == []C38_AfterRun /\ [][C38_Step]_vars

\* a run that succeeded although the peer's key was stored with full trust
\* and a newer timestamp than the one the peer answered with
C38_Witness ==
    /\ pc = "done" /\ result = Ok
    /\ \E x \in start.users :
          /\ x.pub_key = PublicKeyOf(KeyA)
          /\ x.trust = "FullTrust"
          /\ x.timestamp > C38_Answered.timestamp
          /\ x.name # C38_Answered.name
          /\ x.address # C38_Answered.address

\* the same for a key the local user had chosen to ignore
C38_WitnessIgnore ==
    /\ pc = "done" /\ result = Ok
    /\ \E x \in start.users :
          x.pub_key = PublicKeyOf(KeyA) /\ x.trust = "Ignore"


\* The signed fields of a Content
C40_SignedFieldsOf(c) == <<c.index_hash, c.timestamp, c.magnet_link, c.entries>>

\* Two Content records at hand: one built by new_signed, and the same with a
\* signed field or the key given another value
C40_TwoContents == made.kind = "Tampered" /\ made.of = "Content"

\* C40: the byte string signed for a Content determines its signed fields:
\* two Content records whose signed byte strings are equal have the same
\* index_hash, timestamp, magnet_link and entries, so a signature valid for
\* one does not validate a record whose signed fields differ.
C40_BytesDetermineFields ==
    C40_TwoContents =>
        /\ SignedBytesOf("Content", made.now) = SignedBytesOf("Content", made.rec)
              => C40_SignedFieldsOf(made.now) = C40_SignedFieldsOf(made.rec)
        /\ (ContentVerify(made.rec) /\ ContentVerify(made.now))
              => C40_SignedFieldsOf(made.now) = C40_SignedFieldsOf(made.rec)

\* The bytes of a content that follow its hash and timestamp: the magnet
\* link and the entries laid end to end, no length between them
C40_Tail(c) ==
    c.magnet_link
        \o Flatten([j \in 1..Len(c.entries) |-> EntryToBytes(c.entries[j])])

\* C40, as the code has it: the hash and the timestamp, of fixed width at
\* the head of the bytes, are determined; of the magnet link and the entries
\* only their bytes laid end to end, which different entries can share
C40_BytesDetermineFixedFields ==
    (C40_TwoContents
        /\ SignedBytesOf("Content", made.now) = SignedBytesOf("Content", made.rec))
    =>  /\ made.now.index_hash = made.rec.index_hash
        /\ made.now.timestamp = made.rec.timestamp
        /\ C40_Tail(made.now) = C40_Tail(made.rec)

\* Two contents that differ in the title and the path of their one entry
\* have the same signed bytes, and the signature of the first validates the
\* second
C40_Witness ==
    /\ C40_TwoContents
    /\ made.rec.entries = <<EntryY>>
    /\ made.now.entries = <<EntryX>>
    /\ SignedBytesOf("Content", made.now) = SignedBytesOf("Content", made.rec)
    /\ ContentVerify(made.rec) /\ ContentVerify(made.now)

\* Two contents of different timestamps have different signed bytes
C40_WitnessTimestamp ==
    /\ C40_TwoContents
    /\ made.field = "timestamp"
    /\ SignedBytesOf("Content", made.now) # SignedBytesOf("Content", made.rec)

====
